---- MODULE Spec2Model ----
(***************************************************************************)
(* Termsheet generators (TS_GFA.py: TermsheetGenerator, main.py:           *)
(* TermsheetCIIGenerator): number-to-French-words conversion, amount       *)
(* normalisation and the placeholder substitution engine.                  *)
(*                                                                         *)
(* Texts are strings; Python's str operations (replace, in, join) are      *)
(* defined character by character over them.  Python integers are         *)
(* unbounded, so an integer is kept as a record                            *)
(*      [neg |-> sign, hi |-> |n| \div 10^9, lo |-> |n| % 10^9]            *)
(* whose two limbs each fit the model checker's machine integers.          *)
(* A Python exception raised inside a pure function is the value the       *)
(* function yields, and every operation applied to it yields it again.     *)
(***************************************************************************)
EXTENDS Integers, Sequences, FiniteSets, TLC

VARIABLES
  number,         \* harness of the pure functions: the argument `number`
  result,         \* harness of the pure functions: what the call returned
  op,             \* harness of the pure functions: which function has been called
  template_path,  \* TermsheetGenerator.template_path ("" is None)
  buttons,        \* setEnabled state of generate_button and preview_button
  fields,         \* text of each QLineEdit of self.fields
  options,        \* combo box, text edit, spin boxes and check boxes of the form
  clauses,        \* self.clause_widgets: check box and field widgets of each clause
  edits,          \* number of edits the operator has made to the form
  loaded,         \* the latest event: the Document read from template_path
  last_values,    \* the latest event: the dict get_all_values returned
  saved,          \* the latest event: the file doc.save wrote
  dialogs,        \* the latest event: the message boxes shown, in order
  cii_widgets     \* main.py, self.cii_widgets: the field texts of each CII entry

harnessVars == <<number, result, op>>

appVars == <<template_path, buttons, fields, options, clauses, edits, loaded,
             last_values, saved, dialogs, cii_widgets>>

vars == <<number, result, op, template_path, buttons, fields, options, clauses, edits,
          loaded, last_values, saved, dialogs, cii_widgets>>

(***************************************************************************)
(* Python helpers                                                          *)
(***************************************************************************)

\* The exception a str-valued function may raise, as the value it yields.
IndexError == "<IndexError>"

IsError(v) == v = IndexError

\* a + b on str, with a raised exception propagating
Cat(a, b) ==
  IF IsError(a) THEN a
  ELSE IF IsError(b) THEN b
  ELSE a \o b

\* PyIndex without Python's wrap-around of negative indices
PyIndex_NoWrap(list, i) ==
  IF i >= 0 /\ i < Len(list) THEN list[i + 1]
  ELSE IndexError

\* list[i] with Python's negative indices and IndexError
PyIndex(list, i) ==
  IF i >= 0 /\ i < Len(list) THEN list[i + 1]
  ELSE IF i < 0 /\ -i <= Len(list) THEN list[Len(list) + i + 1]
  ELSE IndexError

\* sub in s
Contains(s, sub) ==
  \E i \in 1..(Len(s) - Len(sub) + 1) : SubSeq(s, i, i + Len(sub) - 1) = sub

\* the positions at which sub occurs in s
Occurrences(s, sub) ==
  { i \in 1..(Len(s) - Len(sub) + 1) : SubSeq(s, i, i + Len(sub) - 1) = sub }

\* s.replace(old, new), old not empty: the occurrences are taken left to right
\* and do not overlap
RECURSIVE Replace(_, _, _)
Replace(s, old, new) ==
  LET hits == Occurrences(s, old) IN
  IF hits = {} THEN s
  ELSE LET i == CHOOSE h \in hits : \A g \in hits : h <= g
       IN  SubSeq(s, 1, i - 1) \o new
             \o Replace(SubSeq(s, i + Len(old), Len(s)), old, new)

Digits == <<"0", "1", "2", "3", "4", "5", "6", "7", "8", "9">>

IsDigit(c) == \E d \in 1..10 : Digits[d] = c

DigitValue(c) == (CHOOSE d \in 1..10 : Digits[d] = c) - 1

\* the value of a string of at most nine decimal digits
RECURSIVE DigitsValue(_)
DigitsValue(d) ==
  IF Len(d) = 0 THEN 0
  ELSE 10 * DigitsValue(SubSeq(d, 1, Len(d) - 1)) + DigitValue(SubSeq(d, Len(d), Len(d)))

\* str(k) for a machine-size natural k
RECURSIVE NatToStr(_)
NatToStr(k) ==
  IF k < 10 THEN Digits[k + 1]
  ELSE NatToStr(k \div 10) \o Digits[(k % 10) + 1]

\* d zero-padded on the left to nine digits
RECURSIVE Pad9(_)
Pad9(d) == IF Len(d) >= 9 THEN d ELSE Pad9("0" \o d)

RECURSIVE StripLeadingZeros(_)
StripLeadingZeros(d) ==
  IF Len(d) > 1 /\ SubSeq(d, 1, 1) = "0" THEN StripLeadingZeros(SubSeq(d, 2, Len(d)))
  ELSE d

\* s.strip(), for the space character
RECURSIVE Strip(_)
Strip(s) ==
  IF Len(s) > 0 /\ SubSeq(s, 1, 1) = " " THEN Strip(SubSeq(s, 2, Len(s)))
  ELSE IF Len(s) > 0 /\ SubSeq(s, Len(s), Len(s)) = " " THEN Strip(SubSeq(s, 1, Len(s) - 1))
  ELSE s

\* d[k] = v on a dict d
Put(d, k, v) == [x \in DOMAIN d \cup {k} |-> IF x = k THEN v ELSE d[x]]

\* d.get(k, default)
Get(d, k, default) == IF k \in DOMAIN d THEN d[k] ELSE default

\* d.update(e)
Update(d, e) == [x \in DOMAIN d \cup DOMAIN e |-> IF x \in DOMAIN e THEN e[x] ELSE d[x]]

\* the dict with no key
EmptyDict == [x \in {} |-> ""]

\* the strings pieces[lo..hi] one after the other (the range is cut in halves)
RECURSIVE ConcatRange(_, _, _)
ConcatRange(pieces, lo, hi) ==
  IF lo > hi THEN ""
  ELSE IF lo = hi THEN pieces[lo]
  ELSE LET mid == (lo + hi) \div 2
       IN  ConcatRange(pieces, lo, mid) \o ConcatRange(pieces, mid + 1, hi)

\* the sequences of ss one after the other
RECURSIVE ConcatAll(_)
ConcatAll(ss) == IF Len(ss) = 0 THEN <<>> ELSE Head(ss) \o ConcatAll(Tail(ss))

LowerLetters == "abcdefghijklmnopqrstuvwxyz"

UpperLetters == "ABCDEFGHIJKLMNOPQRSTUVWXYZ"

\* s.upper() for a text of ASCII letters, digits and punctuation
Upper(s) ==
  ConcatRange(
    [i \in 1..Len(s) |->
       LET c == SubSeq(s, i, i)
       IN  IF \E j \in 1..26 : SubSeq(LowerLetters, j, j) = c
           THEN LET j == CHOOSE j \in 1..26 : SubSeq(LowerLetters, j, j) = c
                IN  SubSeq(UpperLetters, j, j)
           ELSE c],
    1, Len(s))

\* sep.join(list)
RECURSIVE Join(_, _)
Join(list, sep) ==
  IF Len(list) = 0 THEN ""
  ELSE IF Len(list) = 1 THEN Head(list)
  ELSE Cat(Cat(Head(list), sep), Join(Tail(list), sep))

(***************************************************************************)
(* Integers wider than a machine word                                      *)
(***************************************************************************)

Big(neg, hi, lo) == [neg |-> neg, hi |-> hi, lo |-> lo]

BigIsZero(n) == n.hi = 0 /\ n.lo = 0

\* number < 0
BigIsNeg(n) == n.neg /\ ~BigIsZero(n)

\* -number
BigNegate(n) == Big(~n.neg /\ ~BigIsZero(n), n.hi, n.lo)

\* int(s) raises ValueError unless s is an optional sign followed by decimal
\* digits in which single underscores may separate digits.  (The surrounding
\* whitespace int() also accepts does not occur: every caller has removed the
\* spaces.)
PyIntRaises(s) ==
  LET signed == Len(s) > 0 /\ SubSeq(s, 1, 1) \in {"-", "+"}
      body   == IF signed THEN SubSeq(s, 2, Len(s)) ELSE s
  IN  ~ /\ Len(body) > 0
        /\ \A i \in 1..Len(body) :
              IsDigit(SubSeq(body, i, i)) \/ SubSeq(body, i, i) = "_"
        /\ IsDigit(SubSeq(body, 1, 1))
        /\ IsDigit(SubSeq(body, Len(body), Len(body)))
        /\ ~Contains(body, "__")

\* int(s) where it does not raise
PyInt(s) ==
  LET signed == Len(s) > 0 /\ SubSeq(s, 1, 1) \in {"-", "+"}
      body   == IF signed THEN SubSeq(s, 2, Len(s)) ELSE s
      d  == StripLeadingZeros(Replace(body, "_", ""))
      hi == IF Len(d) > 9 THEN DigitsValue(SubSeq(d, 1, Len(d) - 9)) ELSE 0
      lo == IF Len(d) > 9 THEN DigitsValue(SubSeq(d, Len(d) - 8, Len(d)))
            ELSE DigitsValue(d)
  IN  Big(SubSeq(s, 1, 1) = "-" /\ (hi # 0 \/ lo # 0), hi, lo)

\* str(abs(n))
BigDigits(n) ==
  IF n.hi = 0 THEN NatToStr(n.lo)
  ELSE NatToStr(n.hi) \o Pad9(NatToStr(n.lo))

\* the digits d with sep between every group of three, counted from the right
RECURSIVE Grouped(_, _)
Grouped(d, sep) ==
  IF Len(d) <= 3 THEN d
  ELSE Grouped(SubSeq(d, 1, Len(d) - 3), sep) \o sep \o SubSeq(d, Len(d) - 2, Len(d))

\* f"{n:,}"
FormatComma(n) ==
  (IF n.neg THEN "-" ELSE "") \o Grouped(BigDigits(n), ",")

(***************************************************************************)
(* class NumberToWords (identical text in TS_GFA.py:37-136 and             *)
(* main.py:34-133)                                                         *)
(***************************************************************************)

UNITS == <<"", "un", "deux", "trois", "quatre", "cinq", "six", "sept", "huit", "neuf">>

TEENS == <<"dix", "onze", "douze", "treize", "quatorze", "quinze", "seize",
           "dix-sept", "dix-huit", "dix-neuf">>

TENS == <<"", "", "vingt", "trente", "quarante", "cinquante", "soixante",
          "soixante-dix", "quatre-vingt", "quatre-vingt-dix">>

\* HundredsPart pluralising "cent" after a multiplier
HundredsPart_Plural(n) ==
  IF n >= 100
  THEN LET hundreds == n \div 100 IN
       IF hundreds = 1 THEN <<"cent">>
       ELSE <<Cat(PyIndex(UNITS, hundreds), " cents")>>
  ELSE <<>>

\* HundredsPart without the special case of exactly one hundred ("un cent")
HundredsPart_UnCent(n) ==
  IF n >= 100
  THEN LET hundreds == n \div 100 IN
       <<Cat(PyIndex(UNITS, hundreds), " cent")>>
  ELSE <<>>

\* The "# Centaines" block of _convert_hundreds: the words pushed on result.
HundredsPart(n) ==
  IF n >= 100
  THEN LET hundreds == n \div 100 IN
       IF hundreds = 1 THEN <<"cent">>
       ELSE <<Cat(PyIndex(UNITS, hundreds), " cent")>>
  ELSE <<>>

\* TensPart without the "tens != 8" exception to "<tens> et un"
TensPart_EtUn(n) ==
  IF n >= 20
  THEN LET tens == n \div 10
           units == n % 10 IN
       IF tens = 7
       THEN IF units = 1 THEN <<"soixante et onze">>
            ELSE IF units > 1 THEN <<Cat("soixante-", PyIndex(TEENS, units - 10))>>
            ELSE <<"soixante-dix">>
       ELSE IF tens = 9
       THEN IF units > 0 THEN <<Cat("quatre-vingt-", PyIndex(TEENS, units - 10))>>
            ELSE <<"quatre-vingt-dix">>
       ELSE LET tens_word == PyIndex(TENS, tens) IN
            IF units = 1 THEN <<Cat(tens_word, " et un")>>
            ELSE IF units > 0 THEN <<Cat(Cat(tens_word, "-"), PyIndex(UNITS, units))>>
            ELSE IF tens = 8 THEN <<"quatre-vingts">>
            ELSE <<tens_word>>
  ELSE IF n >= 10 THEN <<PyIndex(TEENS, n - 10)>>
  ELSE IF n > 0 THEN <<PyIndex(UNITS, n)>>
  ELSE <<>>

\* The "# Dizaines et unités" block of _convert_hundreds, on number % 100
\* (or on number itself below 100).
TensPart(n) ==
  IF n >= 20
  THEN LET tens == n \div 10
           units == n % 10 IN
       IF tens = 7
       THEN IF units = 1 THEN <<"soixante et onze">>
            ELSE IF units > 1 THEN <<Cat("soixante-", PyIndex(TEENS, units - 10))>>
            ELSE <<"soixante-dix">>
       ELSE IF tens = 9
       THEN IF units > 0 THEN <<Cat("quatre-vingt-", PyIndex(TEENS, units - 10))>>
            ELSE <<"quatre-vingt-dix">>
       ELSE LET tens_word == PyIndex(TENS, tens) IN
            IF units = 1 /\ tens # 8 THEN <<Cat(tens_word, " et un")>>
            ELSE IF units > 0 THEN <<Cat(Cat(tens_word, "-"), PyIndex(UNITS, units))>>
            ELSE IF tens = 8 THEN <<"quatre-vingts">>
            ELSE <<tens_word>>
  ELSE IF n >= 10 THEN <<PyIndex(TEENS, n - 10)>>
  ELSE IF n > 0 THEN <<PyIndex(UNITS, n)>>
  ELSE <<>>

\* NumberToWords._convert_hundreds(number), number a machine-size natural
_convert_hundreds(n) ==
  LET rest == IF n >= 100 THEN n % 100 ELSE n
  IN  Join(HundredsPart(n) \o TensPart(rest), " ")

\* BillionsPart leaving out a count of billions that has no words
BillionsPart_Silent(n) ==
  IF n.hi >= 1 /\ n.hi <= 999
  THEN LET billions == n.hi IN
       IF billions = 1 THEN <<"un milliard">>
       ELSE <<Cat(_convert_hundreds(billions), " milliards")>>
  ELSE <<>>

\* The "# Milliards" block of convert
BillionsPart(n) ==
  IF n.hi >= 1
  THEN LET billions == n.hi IN
       IF billions = 1 THEN <<"un milliard">>
       ELSE <<Cat(_convert_hundreds(billions), " milliards")>>
  ELSE <<>>

\* The "# Millions" block of convert, on number % 10^9
MillionsPart(n) ==
  IF n >= 1000000
  THEN LET millions == n \div 1000000 IN
       IF millions = 1 THEN <<"un million">>
       ELSE <<Cat(_convert_hundreds(millions), " millions")>>
  ELSE <<>>

\* ThousandsPart treating the thousands like the other scales ("un mille")
ThousandsPart_Un(n) ==
  IF n >= 1000
  THEN LET thousands == n \div 1000 IN
       <<Cat(_convert_hundreds(thousands), " mille")>>
  ELSE <<>>

\* The "# Milliers" block of convert, on number % 10^6
ThousandsPart(n) ==
  IF n >= 1000
  THEN LET thousands == n \div 1000 IN
       IF thousands = 1 THEN <<"mille">>
       ELSE <<Cat(_convert_hundreds(thousands), " mille")>>
  ELSE <<>>

\* The "# Centaines" block of convert, on number % 1000
RemainderPart(n) ==
  IF n > 0 THEN <<_convert_hundreds(n)>> ELSE <<>>

RECURSIVE convert(_)

\* convert testing the sign before zero and dropping the space after "moins"
convert_Moins(n) ==
  IF n.neg THEN Cat("moins", convert(Big(FALSE, n.hi, n.lo)))
  ELSE IF BigIsZero(n) THEN "zéro"
  ELSE LET n1 == n.lo
           n2 == IF n1 >= 1000000 THEN n1 % 1000000 ELSE n1
           n3 == IF n2 >= 1000 THEN n2 % 1000 ELSE n2
       IN  Join(BillionsPart(n) \o MillionsPart(n1) \o ThousandsPart(n2)
                  \o RemainderPart(n3), " ")

\* convert leaving out "moins"
convert_Unsigned(n) ==
  IF BigIsZero(n) THEN "zéro"
  ELSE IF BigIsNeg(n) THEN convert(BigNegate(n))
  ELSE LET n1 == n.lo
           n2 == IF n1 >= 1000000 THEN n1 % 1000000 ELSE n1
           n3 == IF n2 >= 1000 THEN n2 % 1000 ELSE n2
       IN  Join(BillionsPart(n) \o MillionsPart(n1) \o ThousandsPart(n2)
                  \o RemainderPart(n3), " ")

\* NumberToWords.convert(number)
convert(n) ==
  IF BigIsZero(n) THEN "zéro"
  ELSE IF BigIsNeg(n) THEN Cat("moins ", convert(BigNegate(n)))
  ELSE LET n1 == n.lo                                        \* number %= 10^9
           n2 == IF n1 >= 1000000 THEN n1 % 1000000 ELSE n1  \* number %= 10^6
           n3 == IF n2 >= 1000 THEN n2 % 1000 ELSE n2        \* number %= 1000
       IN  Join(BillionsPart(n) \o MillionsPart(n1) \o ThousandsPart(n2)
                  \o RemainderPart(n3), " ")

(***************************************************************************)
(* format_number_with_dots: TS_GFA.py:138-144 and main.py:136-142          *)
(***************************************************************************)

\* format_number_with_dots returning the stripped text when int() fails
format_number_with_dots_GFA_Stripped(text) ==
  LET stripped == Replace(Replace(text, " ", ""), ",", "")
  IN  IF PyIntRaises(stripped) THEN stripped
      ELSE Replace(FormatComma(PyInt(stripped)), ",", ".")

\* TS_GFA.py: spaces and commas are removed before int(); a bare except
\* returns the argument
format_number_with_dots_GFA(text) ==
  LET stripped == Replace(Replace(text, " ", ""), ",", "")
  IN  IF PyIntRaises(stripped) THEN text
      ELSE Replace(FormatComma(PyInt(stripped)), ",", ".")

\* main.py: spaces, commas and dots are removed before int(); a bare except
\* returns the argument
format_number_with_dots_CII(text) ==
  LET stripped == Replace(Replace(Replace(text, " ", ""), ",", ""), ".", "")
  IN  IF PyIntRaises(stripped) THEN text
      ELSE Replace(FormatComma(PyInt(stripped)), ",", ".")

(***************************************************************************)
(* TermsheetGenerator (TS_GFA.py): the form                                *)
(***************************************************************************)

\* main_fields of setup_ui, in the order the widgets enter self.fields
main_fields ==
  <<"nom_promoteur", "nom_contact", "adresse_promoteur", "date", "ville",
    "reference_dossier", "nom_sccv", "numero_siren", "ville_rcs", "montant_credit",
    "montant_gfa", "frais_dossier", "montant_apports", "date_echeance_gfa">>

\* the fields get_all_values formats and converts to words
amount_fields == <<"montant_credit", "montant_gfa", "frais_dossier", "montant_apports">>

SeqToSet(q) == { q[i] : i \in 1..Len(q) }

\* clauses_config of setup_clauses: the field names and types of each clause
clauses_config ==
  << <<[name |-> "nom_vendeur", type |-> "text"]>>,
     <<[name |-> "nombre_t3", type |-> "number"],
       [name |-> "nombre_t4", type |-> "number"],
       [name |-> "nombre_t5", type |-> "number"]>>,
     <<>>,
     <<[name |-> "nom_bailleur_agrement", type |-> "text"],
       [name |-> "type_bloc", type |-> "text"]>>,
     <<>>,
     <<[name |-> "nom_bailleur_reservation", type |-> "text"],
       [name |-> "type_bloc_reservation", type |-> "text"]>>,
     <<[name |-> "niveau_commercialisation_libre", type |-> "number"]>> >>

\* clauses_config of setup_clauses: the name of each clause
clause_names ==
  <<"Garantie d'actif/passif (rachat de parts)",
    "Niveau de commercialisation (lots T3, T4, T5)",
    "Accord de financement des réservataires",
    "Agrément bailleur social",
    "Engagement d'information modification PC",
    "Contrat de réservation bailleur",
    "Niveau de commercialisation libre">>

\* ClauseWidget.setup_ui: check box off, a QSpinBox at 0, a QLineEdit empty
NewClauseWidget(config) ==
  [enabled |-> FALSE,
   widgets |-> [k \in { config[i].name : i \in 1..Len(config) } |->
                  LET f == CHOOSE i \in 1..Len(config) : config[i].name = k
                  IN  IF config[f].type = "number" THEN "0" ELSE ""]]

\* ClauseWidget.get_field_values: str(widget.value()) or widget.text().strip()
get_field_values(clause) == [k \in DOMAIN clause.widgets |-> Strip(clause.widgets[k])]

\* f"{x:.2f}".replace('.', ',') for a spin box value kept in hundredths
Format2f(hundredths) ==
  LET cents == hundredths % 100
  IN  NatToStr(hundredths \div 100) \o ","
        \o (IF cents < 10 THEN "0" ELSE "") \o NatToStr(cents)

\* The widgets of setup_ui other than self.fields and the clauses, as built.
\* (The horizontal ellipsis of the default objet is written "..." here.)
NewOptions ==
  [civilite |-> "Monsieur",
   objet |-> "Réalisation à,.... , d'un immeuble neuf d'une surface de plancher de m² conçu en R+ comprenant logements et places de stationnement",
   taux_speculatif |-> 225,
   taux_comission_engagement_speculatif |-> 75,
   taux_non_speculatif |-> 150,
   taux_comission_engagement_non_speculatif |-> 50,
   taux_comission_forfaitaire |-> 55,
   niveau_commercialisation |-> 50,
   inclure_apports |-> TRUE,
   conditions_speculatives |-> TRUE,
   conditions_non_speculatives |-> TRUE]

\* the main fields as they were at construction, whatever is typed now
MainValues_Stale(f) == [k \in SeqToSet(main_fields) |-> ""]

\* get_all_values, "# Champs principaux": strip, and format the amounts
MainValues(f) ==
  [k \in SeqToSet(main_fields) |->
     IF k \in SeqToSet(amount_fields)
     THEN format_number_with_dots_GFA(Strip(f[k]))
     ELSE Strip(f[k])]

\* get_all_values, from "# Civilité" to "# État des cases à cocher"
OptionValues(o) ==
  [civilite |-> o.civilite,
   objet |-> Strip(o.objet),
   taux_speculatif |-> Format2f(o.taux_speculatif),
   taux_non_speculatif |-> Format2f(o.taux_non_speculatif),
   taux_comission_engagement_speculatif |-> Format2f(o.taux_comission_engagement_speculatif),
   taux_comission_engagement_non_speculatif |->
      Format2f(o.taux_comission_engagement_non_speculatif),
   taux_comission_forfaitaire |-> Format2f(o.taux_comission_forfaitaire),
   niveau_commercialisation |-> NatToStr(o.niveau_commercialisation),
   inclure_apports |-> o.inclure_apports,
   conditions_speculatives |-> o.conditions_speculatives,
   conditions_non_speculatives |-> o.conditions_non_speculatives]

\* the clause fields entering the dict whether or not the clause is enabled
RECURSIVE ClauseValues_All(_, _)
ClauseValues_All(values, cw) ==
  IF Len(cw) = 0 THEN values
  ELSE ClauseValues_All(Update(values, get_field_values(Head(cw))), Tail(cw))

\* get_all_values, "# Récupérer les valeurs des clauses optionnelles"
RECURSIVE ClauseValues(_, _)
ClauseValues(values, cw) ==
  IF Len(cw) = 0 THEN values
  ELSE ClauseValues(IF Head(cw).enabled THEN Update(values, get_field_values(Head(cw)))
                    ELSE values,
                    Tail(cw))

\* the text int() is given in "# Convertir les montants en lettres"
AmountDigits(text) == Replace(Replace(Replace(text, " ", ""), ".", ""), ",", "")

\* get_all_values, the try block: the amounts are converted in turn; the first
\* ValueError leaves the block (except ValueError: pass); an exception of
\* NumberToWords.convert is not caught.
RECURSIVE AmountWords(_, _)
AmountWords(r, keys) ==
  IF Len(keys) = 0 \/ r.raised # "" THEN r
  ELSE LET k == Head(keys)
           text == r.values[k]
       IN  IF text = "" THEN AmountWords(r, Tail(keys))
           ELSE IF PyIntRaises(AmountDigits(text)) THEN r
           ELSE LET words == convert(PyInt(AmountDigits(text)))
                IN  IF IsError(words) THEN [r EXCEPT !.raised = words]
                    ELSE AmountWords(
                           [r EXCEPT !.values = Put(r.values, k \o "_lettres", words)],
                           Tail(keys))

\* TermsheetGenerator.get_all_values: [raised |-> the exception that leaves the
\* method ("" for none), values |-> the dict returned]
get_all_values(f, o, cw) ==
  AmountWords([raised |-> "",
               values |-> ClauseValues(Update(MainValues(f), OptionValues(o)), cw)],
              amount_fields)

\* the amount fields of the CII window that get_all_values formats and converts
amount_fields_CII == <<"commission_forfaitaire", "frais_acte", "commission_retainer">>

\* get_all_values of the CII variant, "# Montants autres" and "# Convertir les
\* montants en lettres": texts[k] is what QLineEdit k holds
AmountValues_CII(texts) ==
  AmountWords([raised |-> "",
               values |-> [k \in SeqToSet(amount_fields_CII) |->
                             format_number_with_dots_CII(Strip(texts[k]))]],
              amount_fields_CII)

(***************************************************************************)
(* TermsheetGenerator (TS_GFA.py): the substitution engine                 *)
(***************************************************************************)

\* a table in which one key is the beginning of another
BaseReplacements_SharedPrefix(values) ==
  << <<"[nom", Get(values, "nom_contact", "")>>,
     <<"[nom]", Get(values, "nom_contact", "")>>,
     <<"[date]", Get(values, "date", "")>> >>

\* replace_in_paragraph, the dict literal `replacements`, in insertion order
BaseReplacements(values) ==
  <<
     <<"[Nom du promoteur]", Get(values, "nom_promoteur", "")>>,
     <<"[nom]", Get(values, "nom_contact", "")>>,
     <<"[Adresse du promoteur]", Get(values, "adresse_promoteur", "")>>,
     <<"[date]", Get(values, "date", "")>>,
     <<"[référence dossier]", Get(values, "reference_dossier", "")>>,
     <<"[Monsieur/Madame/Messieurs]", Get(values, "civilite", "")>>,
     <<"[NOM]", Get(values, "nom_sccv", "")>>,
     <<"[n° siren]", Get(values, "numero_siren", "")>>,
     <<"[Ville]", Get(values, "ville_rcs", "")>>,
     <<"[nom de la SCCV]", Get(values, "nom_sccv", "")>>,
     <<"[objet]", Get(values, "objet", "")>>,
     <<"[le bailleur]", Get(values, "nom_bailleur_agrement", "")>>,
     <<"[nombre_credit]", Get(values, "montant_credit", "")>>,
     <<"[nombre_credit_lettres]", Get(values, "montant_credit_lettres", "")>>,
     <<"[montant_credit]", Get(values, "montant_credit", "")>>,
     <<"[montant_credit_lettres]", Get(values, "montant_credit_lettres", "")>>,
     <<"[nombre_gfa]", Get(values, "montant_gfa", "")>>,
     <<"[nombre_gfa_lettres]", Get(values, "montant_gfa_lettres", "")>>,
     <<"[nombre_apport]", Get(values, "montant_apports", "")>>,
     <<"[nombre_apport_lettres]", Get(values, "montant_apports_lettres", "")>>,
     <<"[nombre_frais_dossier]", Get(values, "frais_dossier", "")>>,
     <<"[nombre_frais_dossier_lettres]", Get(values, "frais_dossier_lettres", "")>>,
     <<"[nombre_t3]", Get(values, "nombre_t3", "")>>,
     <<"[nombre_t4]", Get(values, "nombre_t4", "")>>,
     <<"[nombre_t5]", Get(values, "nombre_t5", "")>>,
     <<"[taux_speculatif]", Get(values, "taux_speculatif", "")>>,
     <<"[taux_non_speculatif]", Get(values, "taux_non_speculatif", "")>>,
     <<"[taux_comission_engagement_speculatif]", Get(values, "taux_comission_engagement_speculatif", "")>>,
     <<"[taux_comission_engagement_non_speculatif]", Get(values, "taux_comission_engagement_non_speculatif", "")>>,
     <<"[taux_comission_forfaitaire]", Get(values, "taux_comission_forfaitaire", "")>>,
     <<"[niveau_commercialisation_libre]", Get(values, "niveau_commercialisation_libre", "")>>,
     <<"[nom_bailleur_agrement]", Get(values, "nom_bailleur_agrement", "")>>,
     <<"[type_bloc]", Get(values, "type_bloc", "")>>,
     <<"[date_echeance_gfa]", Get(values, "date_echeance_gfa", "")>>,
     <<"[nom du bailleur]", Get(values, "nom_bailleur_reservation", "")>>,
     <<"[nom_bailleur_reservation]", Get(values, "nom_bailleur_reservation", "")>>,
     <<"[type_bloc_reservation]", Get(values, "type_bloc_reservation", "")>>
  >>

\* replace_in_paragraph, "# Gestion du niveau de commercialisation avec/sans apports"
ApportsReplacements(values) ==
  IF Get(values, "inclure_apports", FALSE)
  THEN << <<"[niveau_commercialisation]", Get(values, "niveau_commercialisation", "")>>,
          <<"[mention_apports]", "(en y ajoutant les apports),">> >>
  ELSE << <<"[niveau_commercialisation]", Get(values, "niveau_commercialisation", "")>>,
          <<"[mention_apports]", "">> >>

\* replace_in_paragraph, "# Gestion des conditions spéculatives"
SpeculativeReplacements(values) ==
  IF Get(values, "conditions_speculatives", TRUE)
  THEN << <<"[interets_speculatifs]",
            "Intérêts portant sur les sommes utilisées calculés sur l'EURIBOR de la durée du tirage (minimum un mois -- maximum 12 mois) majoré de "
              \o Get(values, "taux_speculatif", "")
              \o "% l'an, perçus d'avance le jour de la mise à disposition des fonds ;">>,
          <<"[commission_speculative]",
            Get(values, "taux_comission_engagement_speculatif", "")
              \o "% l'an, calculée sur le montant total du crédit autorisé et perçue trimestriellement et d'avance ;">> >>
  ELSE << <<"[interets_speculatifs]", "">>, <<"[commission_speculative]", "">> >>

\* replace_in_paragraph, "# Gestion des conditions non spéculatives"
NonSpeculativeReplacements(values) ==
  IF Get(values, "conditions_non_speculatives", TRUE)
  THEN << <<"[interets_non_speculatifs]",
            "Lorsque le montant du CA TTC des VEFA actées atteindra 40% et plus du Prix de Revient TTC, les intérêts portant sur les sommes utilisées calculés sur l'EURIBOR de la durée du tirage (minimum un mois -- maximum 12 mois) seront ramenés à "
              \o Get(values, "taux_non_speculatif", "")
              \o "% l'an, perçus d'avance le jour de la mise à disposition des fonds.">>,
          <<"[commission_non_speculative]",
            "Lorsque le montant du CA TTC des VEFA actées atteindra 40% et plus du Prix de Revient TTC, "
              \o Get(values, "taux_comission_engagement_non_speculatif", "")
              \o "% l'an, calculée sur le montant total du crédit autorisé et perçue trimestriellement et d'avance.">> >>
  ELSE << <<"[interets_non_speculatifs]", "">>, <<"[commission_non_speculative]", "">> >>

\* replace_in_paragraph, "# Gestion des clauses optionnelles": the sentence of
\* clause i (from 1) when its check box is on
ClauseSentence(i, values) ==
  CASE i = 1 -> "Le cas échéant, production de la garantie d'actif/passif fournie par les vendeurs et examen favorable de LCL ; {cas rachat de parts de société}"
    [] i = 2 -> "Justification d'un niveau de commercialisation incluant au moins "
                  \o Get(values, "nombre_t3", "")
                  \o " lots de type T3 ainsi qu'au moins " \o Get(values, "nombre_t4", "")
                  \o " lots de type T4 et " \o Get(values, "nombre_t5", "")
                  \o " lots de type T5 (attestation du Notaire indiquant le niveau de pré commercialisation) ;"
    [] i = 3 -> "Justification de l'obtention d'un accord de principe de financement par la majorité des réservataires ;"
    [] i = 4 -> "Justification de l'obtention de l'agrément par "
                  \o Get(values, "nom_bailleur_agrement", "") \o " pour la partie « "
                  \o Get(values, "type_bloc", "") \o " » ;"
    [] i = 5 -> "Engagement de l'emprunteur d'informer la banque de toute demande de PC modificatif et ce jusqu'au remboursement complet des concours accordés ;"
    [] i = 6 -> "Justification d'un contrat de réservation signé de "
                  \o Get(values, "nom_bailleur_reservation", "") \o " pour la partie « "
                  \o Get(values, "type_bloc_reservation", "")
                  \o " » comprenant nom, adresse, prix de vente TTC et échéancier des versements ;"
    [] i = 7 -> LET niveau == Get(values, "niveau_commercialisation_libre", "")
                IN  IF niveau # ""
                    THEN "Justification d'un niveau de commercialisation du CATTC « libre » dépassant "
                           \o niveau
                           \o "% du CATTC « libre » (attestation notariée indiquant le niveau de pré commercialisation) ;"
                    ELSE ""

clause_tokens ==
  <<"[clause_garantie_actif_passif]", "[clause_niveau_commercialisation_lots]",
    "[clause_accord_financement]", "[clause_agrement_bailleur]", "[clause_engagement_pc]",
    "[clause_contrat_reservation]", "[clause_niveau_commercialisation_libre]">>

\* the clause tokens with a disabled clause leaving its closing punctuation
ClauseReplacements_Residue(values, cw) ==
  [i \in 1..7 |->
     <<clause_tokens[i],
       IF Len(cw) >= i /\ cw[i].enabled THEN ClauseSentence(i, values) ELSE " ;">>]

\* replace_in_paragraph, "# Gestion des clauses optionnelles": one entry per clause
ClauseReplacements(values, cw) ==
  [i \in 1..7 |->
     <<clause_tokens[i],
       IF Len(cw) >= i /\ cw[i].enabled THEN ClauseSentence(i, values) ELSE "">>]

\* the dict `replacements` with one more key, "[annexe 1]"
Replacements_Annexe(values, cw) ==
  BaseReplacements(values) \o ApportsReplacements(values)
    \o SpeculativeReplacements(values) \o NonSpeculativeReplacements(values)
    \o ClauseReplacements(values, cw) \o << <<"[annexe 1]", "">> >>

\* the dict `replacements` when the loop "# Effectuer les remplacements" starts
Replacements(values, cw) ==
  BaseReplacements(values) \o ApportsReplacements(values)
    \o SpeculativeReplacements(values) \o NonSpeculativeReplacements(values)
    \o ClauseReplacements(values, cw)

\* replace_in_paragraph of the CII variant: the dict literal `replacements`
Replacements_CII(values) ==
  <<
     <<"[Nom du promoteur]", Get(values, "nom_promoteur", "")>>,
     <<"[nom]", Get(values, "nom_contact", "")>>,
     <<"[Adresse du promoteur]", Get(values, "adresse_promoteur", "")>>,
     <<"[date]", Get(values, "date", "")>>,
     <<"[réference dossier]", Get(values, "reference_dossier", "")>>,
     <<"[Monsieur/Madame/Messieurs]", Get(values, "civilite", "")>>,
     <<"[NOM]", Get(values, "nom_sccv", "")>>,
     <<"[n° siren]", Get(values, "numero_siren", "")>>,
     <<"[Ville]", Get(values, "ville_rcs", "")>>,
     <<"[objet]", Get(values, "objet", "")>>,
     <<"[section_complete_cii]", Get(values, "section_complete_cii", "")>>,
     <<"[nombre_comission_forfaitaire]", Get(values, "commission_forfaitaire", "")>>,
     <<"[nombre_comission_forfaitaire_lettres]",
       Get(values, "commission_forfaitaire_lettres", "")>>,
     <<"[taux_commission_risque]", Get(values, "taux_commission_risque", "")>>,
     <<"[nombre_frais_acte]", Get(values, "frais_acte", "")>>,
     <<"[nombre_frais_acte_lettres]", Get(values, "frais_acte_lettres", "")>>,
     <<"[nombre_commission_retainer]", Get(values, "commission_retainer", "")>>,
     <<"[nombre_commission_retainer_lettres]",
       Get(values, "commission_retainer_lettres", "")>>,
     <<"[date_validite_accord]", Get(values, "date_validite_accord", "")>>
  >>

\* A run of a paragraph: its text and character formatting ("None" is None).
Run(text, name, size, bold, italic, underline) ==
  [text |-> text, name |-> name, size |-> size, bold |-> bold, italic |-> italic,
   underline |-> underline]

\* paragraph.add_run(text): a run with no formatting of its own
add_run(text) == Run(text, "None", "None", "None", "None", "None")

\* `if x:` on a font attribute
Truthy(x) == x \notin {"None", "False", ""}

\* paragraph.text: the texts of the runs, concatenated
RECURSIVE RunsText(_)
RunsText(runs) == IF Len(runs) = 0 THEN "" ELSE Head(runs).text \o RunsText(Tail(runs))

ParagraphText(paragraph) == RunsText(paragraph.runs)

\* One turn of the loop "# Effectuer les remplacements"
ReplaceToken(text, rep) ==
  IF Contains(text, rep[1]) THEN Replace(text, rep[1], rep[2]) ELSE text

\* replace_in_paragraph, the loop "# Effectuer les remplacements": new_text after
\* the entries lo..hi of the dict have been visited in insertion order.  The range
\* is walked in two halves, first lo..mid and then mid+1..hi on its outcome, which
\* is the order of the loop; an empty text holds no token and stays empty.
RECURSIVE ApplyReplacements(_, _, _, _)
ApplyReplacements(text, reps, lo, hi) ==
  IF lo > hi THEN text
  ELSE IF lo = hi THEN ReplaceToken(text, reps[lo])
  ELSE LET mid == (lo + hi) \div 2
           new_text == ApplyReplacements(text, reps, lo, mid)
       IN  IF Len(new_text) = 0 THEN new_text
           ELSE ApplyReplacements(new_text, reps, mid + 1, hi)

\* the update without the test for a change: the runs are rebuilt every time
UpdateParagraph_Always(paragraph, original_text, new_text) ==
  [runs |-> <<add_run(new_text)>>]

\* the update without the test for a change and without paragraph.clear()
UpdateParagraph_NoClear(paragraph, original_text, new_text) ==
  [runs |-> paragraph.runs \o <<add_run(new_text)>>]

\* replace_in_paragraph, "# Mettre à jour le paragraphe si il y a eu des changements"
UpdateParagraph(paragraph, original_text, new_text) ==
  IF new_text # original_text
  THEN IF Len(paragraph.runs) > 0
       THEN LET first_run == paragraph.runs[1]
                new_run == add_run(new_text)
            IN  [runs |-> <<[new_run EXCEPT
                   !.name = IF Truthy(first_run.name) THEN first_run.name ELSE @,
                   !.size = IF Truthy(first_run.size) THEN first_run.size ELSE @,
                   !.bold = IF Truthy(first_run.bold) THEN first_run.bold ELSE @,
                   !.italic = IF Truthy(first_run.italic) THEN first_run.italic ELSE @]>>]
       ELSE [runs |-> <<add_run(new_text)>>]
  ELSE paragraph

\* TermsheetGenerator.replace_in_paragraph(paragraph, values); cw is
\* self.clause_widgets
replace_in_paragraph(paragraph, vals, cw) ==
  LET original_text == ParagraphText(paragraph)
      replacements == Replacements(vals, cw)
      new_text == ApplyReplacements(original_text, replacements, 1, Len(replacements))
  IN  UpdateParagraph(paragraph, original_text, new_text)

\* replace_in_paragraph on each paragraph of a list
ReplaceInParagraphs(paragraphs, vals, cw) ==
  [i \in 1..Len(paragraphs) |-> replace_in_paragraph(paragraphs[i], vals, cw)]

\* TermsheetGenerator.replace_variables_in_document(doc, values): the body
\* paragraphs, the paragraphs of every cell of every row of every table, and the
\* header and footer paragraphs of every section
replace_variables_in_document(doc, vals, cw) ==
  [paragraphs |-> ReplaceInParagraphs(doc.paragraphs, vals, cw),
   tables |->
     [t \in 1..Len(doc.tables) |->
        [r \in 1..Len(doc.tables[t]) |->
           [c \in 1..Len(doc.tables[t][r]) |->
              ReplaceInParagraphs(doc.tables[t][r][c], vals, cw)]]],
   sections |->
     [s \in 1..Len(doc.sections) |->
        [header |-> ReplaceInParagraphs(doc.sections[s].header, vals, cw),
         footer |-> ReplaceInParagraphs(doc.sections[s].footer, vals, cw)]]]

(***************************************************************************)
(* TermsheetGenerator (TS_GFA.py): files, dialogs and handlers             *)
(***************************************************************************)

\* A file path, by the parts pathlib.Path gives; NoPath is None (and the ''
\* a cancelled file dialog returns).
PathOf(dir, stem, suffix) == [dir |-> dir, stem |-> stem, suffix |-> suffix]

NoPath == PathOf("", "", "")

\* Path(p).name
PathName(p) == p.stem \o p.suffix

\* load_default_template: default_template
default_template == PathOf("", "template_ts", ".docx")

\* get_output_path: output_name, the name proposed to the picker (GFA variant)
output_name(tp, timestamp) == tp.stem \o "_genere_" \o timestamp \o ".docx"

\* get_output_path of the CII variant: output_name
output_name_CII(tp, timestamp) == tp.stem \o "_CII_genere_" \o timestamp \o ".docx"

\* get_output_path returning the picker's answer even when it is empty
get_output_path_NoFallback(tp, timestamp, picked) == picked

\* get_output_path: the proposed name, and the picker's answer or "./<name>"
get_output_path(tp, timestamp, picked) ==
  LET output_stem == tp.stem \o "_genere_" \o timestamp
  IN  IF picked = NoPath THEN PathOf("./", output_stem, ".docx") ELSE picked

\* get_output_path of the CII variant
get_output_path_CII(tp, timestamp, picked) ==
  LET output_stem == tp.stem \o "_CII_genere_" \o timestamp
  IN  IF picked = NoPath THEN PathOf("./", output_stem, ".docx") ELSE picked

MessageBox(kind, title, text) == [kind |-> kind, title |-> title, text |-> text]

NoTemplateWarning ==
  MessageBox("warning", "Erreur", "Veuillez d'abord importer un template.")

GenerationError(message) ==
  MessageBox("critical", "Erreur", "Erreur lors de la génération:\n" \o message)

GenerationSuccess(output_path) ==
  MessageBox("question", "Termsheet généré",
             "Le termsheet a été généré avec succès !\n\nFichier: "
               \o PathName(output_path)
               \o "\n\nVoulez-vous ouvrir le dossier de destination ?")

\* the keys of the dict of get_all_values that preview_termsheet may list, in
\* insertion order ('_lettres' keys and the three flags are never listed)
PreviewKeys(cw) ==
  main_fields
    \o <<"civilite", "objet", "taux_speculatif", "taux_non_speculatif",
         "taux_comission_engagement_speculatif",
         "taux_comission_engagement_non_speculatif", "taux_comission_forfaitaire",
         "niveau_commercialisation">>
    \o ConcatAll([i \in 1..Len(cw) |->
                    IF cw[i].enabled
                    THEN [j \in 1..Len(clauses_config[i]) |-> clauses_config[i][j].name]
                    ELSE <<>>])

\* preview_termsheet, "CLAUSES OPTIONNELLES": the lines of clause i
PreviewClause(i, cw) ==
  IF cw[i].enabled
  THEN "+ " \o clause_names[i] \o "\n"
         \o ConcatRange(
              [j \in 1..Len(clauses_config[i]) |->
                 LET field_name == clauses_config[i][j].name
                     field_value == get_field_values(cw[i])[field_name]
                 IN  IF field_value # ""
                     THEN "  - " \o field_name \o ": " \o field_value \o "\n" ELSE ""],
              1, Len(clauses_config[i]))
  ELSE "- " \o clause_names[i] \o " (désactivée)\n"

\* preview_termsheet: preview_text.  (The check mark and the cross that open
\* the option and clause lines are written "+" and "-".)
preview_text(values, cw) ==
  LET keys == PreviewKeys(cw) IN
  "=== APERÇU DES VALEURS ===\n\n" \o "CHAMPS PRINCIPAUX:\n"
    \o ConcatRange([i \in 1..Len(keys) |->
                      IF values[keys[i]] # ""
                      THEN "[" \o Upper(keys[i]) \o "] = " \o values[keys[i]] \o "\n"
                      ELSE ""], 1, Len(keys))
    \o "\n\nOPTIONS:\n"
    \o (IF Get(values, "inclure_apports", FALSE)
        THEN "+ Mention '(en y ajoutant les apports)' incluse\n" ELSE "")
    \o (IF Get(values, "conditions_speculatives", FALSE)
        THEN "+ Conditions spéculatives incluses\n" ELSE "")
    \o (IF Get(values, "conditions_non_speculatives", FALSE)
        THEN "+ Conditions non spéculatives incluses\n" ELSE "")
    \o "\n\nCLAUSES OPTIONNELLES:\n"
    \o ConcatRange([i \in 1..Len(cw) |-> PreviewClause(i, cw)], 1, Len(cw))

\* What preview_termsheet leaves behind: the exception that left the handler
\* ("" for none), the dict obtained and the message boxes shown.
PreviewOutcome(raised, vals, boxes) ==
  [raised |-> raised, values |-> vals, dialogs |-> boxes]

\* TermsheetGenerator.preview_termsheet; an exception of get_all_values is not
\* caught and leaves the handler
preview_termsheet(tp, f, o, cw) ==
  IF tp = NoPath THEN PreviewOutcome("", EmptyDict, <<NoTemplateWarning>>)
  ELSE LET r == get_all_values(f, o, cw) IN
       IF r.raised # "" THEN PreviewOutcome(r.raised, EmptyDict, <<>>)
       ELSE PreviewOutcome("", r.values,
              <<MessageBox("plain", "Aperçu du Termsheet", preview_text(r.values, cw))>>)

\* TermsheetGenerator.process_optional_clauses: the body is `pass`
process_optional_clauses(doc) == doc

\* What a handler leaves behind: the document read, the dict obtained, the file
\* written and the message boxes shown.
Outcome(doc, vals, file, boxes) ==
  [loaded |-> doc, values |-> vals, saved |-> file, dialogs |-> boxes]

\* generate_termsheet announcing success although doc.save failed
generate_termsheet_SaveIgnored(tp, f, o, cw, env) ==
  IF tp = NoPath THEN Outcome(<<>>, EmptyDict, <<>>, <<NoTemplateWarning>>)
  ELSE IF ~env.load_ok
  THEN Outcome(<<>>, EmptyDict, <<>>, <<GenerationError(env.load_error)>>)
  ELSE LET r == get_all_values(f, o, cw) IN
       IF r.raised # ""
       THEN Outcome(<<env.document>>, EmptyDict, <<>>,
                    <<GenerationError("list index out of range")>>)
       ELSE LET output_path == get_output_path(tp, env.timestamp, env.picked)
            IN  IF ~env.save_ok
                THEN Outcome(<<env.document>>, r.values, <<>>,
                             <<GenerationError(env.save_error),
                               GenerationSuccess(output_path)>>)
                ELSE Outcome(<<env.document>>, r.values,
                             <<[path |-> output_path,
                                document |-> process_optional_clauses(
                                  replace_variables_in_document(env.document, r.values, cw))]>>,
                             <<GenerationSuccess(output_path)>>)

\* TermsheetGenerator.generate_termsheet.  env is what the handler meets outside
\* the form: whether Document(template_path) and doc.save succeed and with which
\* message they fail, the document in the template file, the clock and the
\* answer of the destination picker, the operator's answer to the success
\* question and whether opening the destination folder succeeds (it is opened
\* inside the try block).  (check_and_propose_save_profile belongs to the
\* profile store and shows nothing while adresse_promoteur is empty, as it is
\* here.)
generate_termsheet(tp, f, o, cw, env) ==
  IF tp = NoPath THEN Outcome(<<>>, EmptyDict, <<>>, <<NoTemplateWarning>>)
  ELSE IF ~env.load_ok
  THEN Outcome(<<>>, EmptyDict, <<>>, <<GenerationError(env.load_error)>>)
  ELSE LET r == get_all_values(f, o, cw) IN
       IF r.raised # ""
       THEN Outcome(<<env.document>>, EmptyDict, <<>>,
                    <<GenerationError("list index out of range")>>)
       ELSE LET doc == process_optional_clauses(
                       replace_variables_in_document(env.document, r.values, cw))
                output_path == get_output_path(tp, env.timestamp, env.picked)
            IN  IF ~env.save_ok
                THEN Outcome(<<env.document>>, r.values, <<>>,
                             <<GenerationError(env.save_error)>>)
                ELSE Outcome(<<env.document>>, r.values,
                             <<[path |-> output_path, document |-> doc]>>,
                             IF env.reply_yes /\ ~env.open_ok
                             THEN <<GenerationSuccess(output_path),
                                    GenerationError(env.open_error)>>
                             ELSE <<GenerationSuccess(output_path)>>)

(***************************************************************************)
(* The template files and the operator's inputs the model draws from       *)
(***************************************************************************)

MaxEdits == 2

EditableFields == {"nom_contact", "montant_credit", "montant_gfa"}

\* The texts typed into a field: a name that is itself a token, amounts that
\* int() accepts or rejects, and one amount past the scales of NumberToWords.
FieldTexts(k) ==
  IF k = "nom_contact" THEN {"", "[date]"}
  ELSE IF k = "montant_credit" THEN {"", "1500000", "abc", "1000000000000"}
  ELSE {"", "1500000", "abc"}

ImportChoices == {NoPath, PathOf("/modeles/", "ts_gfa", ".docx")}

SaveChoices == {NoPath, PathOf("/sorties/", "termsheet", ".docx")}

Timestamps == {"20261101_093000"}

ParagraphSamples ==
  << <<Run("[montant_gfa] ([montant_gfa_lettres])", "Arial", "12", "True", "None", "None")>>,
     <<Run("Prix : ", "None", "None", "False", "True", "single"),
       Run("[nombre_", "Arial", "None", "True", "None", "None"),
       Run("gfa] euros ([nombre_gfa_lettres])", "None", "10", "None", "False", "None")>>,
     <<Run("Cher [nom], le [date]", "None", "None", "None", "None", "None")>>,
     <<Run("[d[nom]ate]", "Times", "11", "None", "True", "None")>>,
     <<Run("Sans variable", "Arial", "12", "None", "None", "single")>>,
     <<>>,
     <<Run("[montant_credit] ", "None", "12", "True", "True", "None"),
       Run("[nombre_gfa_lettres]", "None", "12", "None", "None", "None")>>,
     <<Run("[clause_accord_financement][mention_apports] [inconnu]",
           "None", "None", "None", "None", "None")>> >>

Sample(i) == [runs |-> ParagraphSamples[((i - 1) % Len(ParagraphSamples)) + 1]]

\* A template with two body paragraphs, one table of one cell, and one section
\* with a header and a footer paragraph.
Template(i) ==
  [paragraphs |-> <<Sample(i), Sample(i + 1)>>,
   tables |-> << << << <<Sample(i + 2)>> >> >> >>,
   sections |-> <<[header |-> <<Sample(i + 3)>>, footer |-> <<Sample(i + 4)>>]>>]

\* Two templates that together hold every sample, each of the split-run samples
\* once in the body and once outside it.
Templates == { Template(1), Template(6) }

Environments ==
  [load_ok : {TRUE}, load_error : {""}, document : Templates, timestamp : Timestamps,
   picked : SaveChoices, save_ok : {TRUE}, save_error : {""},
   reply_yes : {FALSE}, open_ok : {TRUE}, open_error : {""}]
  \cup [load_ok : {TRUE}, load_error : {""}, document : {Template(1)},
        timestamp : Timestamps, picked : {NoPath}, save_ok : {TRUE},
        save_error : {""}, reply_yes : {TRUE}, open_ok : {FALSE},
        open_error : {"[WinError 1155] No application is associated"}]
  \cup [load_ok : {TRUE}, load_error : {""}, document : Templates,
        timestamp : Timestamps, picked : {NoPath}, save_ok : {FALSE},
        save_error : {"[Errno 13] Permission denied"},
        reply_yes : {FALSE}, open_ok : {TRUE}, open_error : {""}]
  \cup [load_ok : {FALSE}, load_error : {"Package not found"},
        document : {Template(1)}, timestamp : Timestamps, picked : {NoPath},
        save_ok : {TRUE}, save_error : {""},
        reply_yes : {FALSE}, open_ok : {TRUE}, open_error : {""}]

(***************************************************************************)
(* The application: construction, the operator's events                    *)
(***************************************************************************)

HarnessIdle == number = "" /\ result = "" /\ op = "none"

\* TermsheetGenerator.__init__; default_exists is os.path.exists(default_template)
\* in load_default_template
Constructed(default_exists) ==
  /\ template_path = IF default_exists THEN default_template ELSE NoPath
  /\ buttons = [generate_button |-> default_exists, preview_button |-> default_exists]
  /\ fields = [k \in SeqToSet(main_fields) |-> ""]
  /\ options = NewOptions
  /\ clauses = [i \in 1..Len(clauses_config) |-> NewClauseWidget(clauses_config[i])]
  /\ edits = 0
  /\ loaded = <<>>
  /\ last_values = EmptyDict
  /\ saved = <<>>
  /\ dialogs = <<>>
  /\ cii_widgets = <<>>

Init ==
  /\ HarnessIdle
  /\ \E default_exists \in BOOLEAN : Constructed(default_exists)

NothingShown ==
  /\ loaded' = <<>>
  /\ last_values' = EmptyDict
  /\ saved' = <<>>
  /\ dialogs' = <<>>

\* import_template without the two setEnabled(True)
ImportTemplate_NoEnable ==
  /\ \E file_path \in ImportChoices :
       IF file_path # NoPath
       THEN template_path' = file_path /\ UNCHANGED buttons
       ELSE UNCHANGED <<template_path, buttons>>
  /\ NothingShown
  /\ result' = ""
  /\ UNCHANGED <<fields, options, clauses, edits, number, op, cii_widgets>>

\* TermsheetGenerator.import_template
ImportTemplate ==
  /\ \E file_path \in ImportChoices :
       IF file_path # NoPath
       THEN /\ template_path' = file_path
            /\ buttons' = [generate_button |-> TRUE, preview_button |-> TRUE]
       ELSE UNCHANGED <<template_path, buttons>>
  /\ NothingShown
  /\ UNCHANGED <<fields, options, clauses, edits>>
  /\ result' = ""
  /\ UNCHANGED <<number, op, cii_widgets>>

\* The operator types text into one of the QLineEdit of self.fields.
EditField ==
  /\ edits < MaxEdits
  /\ \E k \in EditableFields : \E text \in FieldTexts(k) :
       /\ text # fields[k]
       /\ fields' = [fields EXCEPT ![k] = text]
  /\ edits' = edits + 1
  /\ NothingShown
  /\ UNCHANGED <<template_path, buttons, options, clauses>>
  /\ result' = ""
  /\ UNCHANGED <<number, op, cii_widgets>>

\* The operator clicks generate_button (a disabled button emits no click).
GenerateTermsheet ==
  /\ buttons.generate_button
  /\ \E env \in Environments :
       LET out == generate_termsheet(template_path, fields, options, clauses, env)
       IN  /\ loaded' = out.loaded
           /\ last_values' = out.values
           /\ saved' = out.saved
           /\ dialogs' = out.dialogs
  /\ UNCHANGED <<template_path, buttons, fields, options, clauses, edits>>
  /\ result' = ""
  /\ UNCHANGED <<number, op, cii_widgets>>

\* The operator clicks preview_button; result is the exception that left the
\* handler, "" when it returned.
PreviewTermsheet ==
  /\ buttons.preview_button
  /\ LET out == preview_termsheet(template_path, fields, options, clauses)
     IN  /\ result' = out.raised
         /\ last_values' = out.values
         /\ dialogs' = out.dialogs
  /\ loaded' = <<>>
  /\ saved' = <<>>
  /\ UNCHANGED <<template_path, buttons, fields, options, clauses, edits>>
  /\ UNCHANGED <<number, op, cii_widgets>>

Next == ImportTemplate \/ EditField \/ GenerateTermsheet \/ PreviewTermsheet

Spec == Init /\ [][Next]_vars

(***************************************************************************)
(* Converter harness: one call of a NumberToWords classmethod on an        *)
(* integer drawn from the sampled inputs.                                  *)
(***************************************************************************)

\* Three-digit group values that reach every branch of _convert_hundreds.
GroupSamples == {0, 1, 2, 10, 21, 71, 80, 81, 91, 100, 200, 999}

\* Values of number // 10^9; 1000 is the first one outside the supported range
\* and 123456 lies far outside it.
HiSamples == {0, 1, 2, 80, 999, 1000, 123456}

ConvertInputs ==
  { Big(s, h, m * 1000000 + t * 1000 + r) :
      s \in BOOLEAN, h \in HiSamples,
      m \in GroupSamples, t \in GroupSamples, r \in GroupSamples }
  \cup { Big(s, 0, r) : s \in BOOLEAN, r \in 0..999 }

InitConvert ==
  /\ number \in { n \in ConvertInputs : n.neg => ~BigIsZero(n) }
  /\ result = ""
  /\ op = "none"
  /\ Constructed(FALSE)

CallConvert ==
  /\ op = "none"
  /\ result' = convert(number)
  /\ op' = "convert"
  /\ UNCHANGED number
  /\ UNCHANGED appVars

CallConvertHundreds ==
  /\ op = "none"
  /\ ~number.neg /\ number.hi = 0 /\ number.lo <= 999
  /\ result' = _convert_hundreds(number.lo)
  /\ op' = "_convert_hundreds"
  /\ UNCHANGED number
  /\ UNCHANGED appVars

NextConvert == CallConvert \/ CallConvertHundreds

SpecConvert == InitConvert /\ [][NextConvert]_vars

(***************************************************************************)
(* Formatter harness: one call of format_number_with_dots, in either file, *)
(* on a text built from at most MaxPieces pieces.                          *)
(***************************************************************************)

MaxPieces == 4

FormatPieces == {"1", "0", "000", "500", " ", ",", ".", "a", "-"}

FormatSamples ==
  {"1000000", "1500000", "1.000.000", "1,000,000", "1 000 000", "12 345,678.9",
   "0012345678901", "+5", "1_000", "_1", "1__0", "2147483648", "999999999999"}

RECURSIVE Flatten(_)
Flatten(pieces) ==
  IF Len(pieces) = 0 THEN "" ELSE Head(pieces) \o Flatten(Tail(pieces))

FormatInputs ==
  { Flatten(p) : p \in UNION { [1..k -> FormatPieces] : k \in 0..MaxPieces } }
  \cup FormatSamples

InitFormat ==
  /\ number \in FormatInputs
  /\ result = ""
  /\ op = "none"
  /\ Constructed(FALSE)

CallFormatGFA ==
  /\ op = "none"
  /\ result' = format_number_with_dots_GFA(number)
  /\ op' = "format_number_with_dots_GFA"
  /\ UNCHANGED number
  /\ UNCHANGED appVars

CallFormatCII ==
  /\ op = "none"
  /\ result' = format_number_with_dots_CII(number)
  /\ op' = "format_number_with_dots_CII"
  /\ UNCHANGED number
  /\ UNCHANGED appVars

NextFormat == CallFormatGFA \/ CallFormatCII

SpecFormat == InitFormat /\ [][NextFormat]_vars

(***************************************************************************)
(* Value-map harness: one call of TermsheetGenerator.get_all_values on a   *)
(* form whose four amount fields hold texts drawn from AmountTexts.        *)
(***************************************************************************)

\* Texts an operator may leave in an amount field: nothing, an amount, a text
\* that is no number, a negative number, an amount with a decimal point, an
\* amount already grouped by dots.
AmountTexts == {"", "1500000", "abc", "-5", "1.5", "1.500.000"}

\* the forms of the harness: every field empty but the amount fields
ValuesInputs ==
  { [k \in SeqToSet(main_fields) |->
       IF k \in SeqToSet(amount_fields) THEN a[k] ELSE ""] :
    a \in [SeqToSet(amount_fields) -> AmountTexts] }

InitValues ==
  /\ HarnessIdle
  /\ template_path = NoPath
  /\ buttons = [generate_button |-> FALSE, preview_button |-> FALSE]
  /\ fields \in ValuesInputs
  /\ options = NewOptions
  /\ clauses = [i \in 1..Len(clauses_config) |-> NewClauseWidget(clauses_config[i])]
  /\ edits = 0
  /\ loaded = <<>>
  /\ last_values = EmptyDict
  /\ saved = <<>>
  /\ dialogs = <<>>
  /\ cii_widgets = <<>>

\* values = self.get_all_values(); result is the exception that left the call
CallGetAllValues ==
  /\ op = "none"
  /\ LET r == get_all_values(fields, options, clauses)
     IN  /\ last_values' = r.values
         /\ result' = r.raised
  /\ op' = "get_all_values"
  /\ UNCHANGED number
  /\ UNCHANGED <<template_path, buttons, fields, options, clauses, edits, loaded,
                 saved, dialogs, cii_widgets>>

NextValues == CallGetAllValues

SpecValues == InitValues /\ [][NextValues]_vars

(***************************************************************************)
(* Engine harness: replace_variables_in_document called on a one-paragraph *)
(* document with the value map of a form, and once more on its outcome.    *)
(***************************************************************************)

\* the conditional tokens of replace_in_paragraph, in the order of the dict
conditional_tokens ==
  <<"[mention_apports]", "[interets_speculatifs]", "[commission_speculative]",
    "[interets_non_speculatifs]", "[commission_non_speculative]">> \o clause_tokens

\* a template paragraph holding one conditional token between two pieces of text
ConditionalSample(token) ==
  <<Run("Conditions : ", "Arial", "11", "None", "None", "None"),
    Run(token \o " Fin.", "None", "None", "None", "None", "None")>>

\* Template paragraphs: those of ParagraphSamples, one per conditional token,
\* and paragraphs whose first run carries an explicit False, unknown bracket text
\* or a value that is itself a token.
EngineSamples ==
  ParagraphSamples
    \o [i \in 1..Len(conditional_tokens) |-> ConditionalSample(conditional_tokens[i])]
    \o << <<Run("Le [date], ", "Arial", "11", "True", "False", "None"),
            Run("[Ville]", "None", "None", "None", "None", "None")>>,
          <<Run("Voir [annexe 1] et [nom] [x puis [Date] ]", "None", "None", "None",
                "None", "None")>>,
          <<Run("[no[date]m]", "None", "None", "None", "None", "None")>>,
          <<Run("[nombre_t3];[nombre_t4];[nombre_t5];[nom_bailleur_agrement];"
                  \o "[le bailleur];[type_bloc];[nom du bailleur];"
                  \o "[nom_bailleur_reservation];[type_bloc_reservation];"
                  \o "[niveau_commercialisation_libre];",
                "None", "None", "None", "None", "None")>> >>

\* a document whose body is the one paragraph p
DocOf(p) == [paragraphs |-> <<[runs |-> p]>>, tables |-> <<>>, sections |-> <<>>]

\* what the operator has typed into the clause fields once the clauses are on
FilledText(k) ==
  CASE k = "nom_vendeur" -> "M. Martin"
    [] k = "nombre_t3" -> "3"
    [] k = "nombre_t4" -> "2"
    [] k = "nombre_t5" -> "1"
    [] k = "nom_bailleur_agrement" -> "CDC Habitat"
    [] k = "type_bloc" -> "social"
    [] k = "nom_bailleur_reservation" -> "In'li"
    [] k = "type_bloc_reservation" -> "LLI"
    [] k = "niveau_commercialisation_libre" -> "40"

\* self.clause_widgets as built, and with every field filled in while no
\* clause, every clause, or only clauses 2 and 4 are enabled (the fields of a
\* clause unchecked after it was filled in are hidden and keep their texts)
EngineClauses ==
  { [i \in 1..Len(clauses_config) |-> NewClauseWidget(clauses_config[i])] }
  \cup { [i \in 1..Len(clauses_config) |->
            [enabled |-> i \in on,
             widgets |-> [k \in DOMAIN NewClauseWidget(clauses_config[i]).widgets |->
                            FilledText(k)]]] :
          on \in {{}, 1..Len(clauses_config), {2, 4}} }

\* the option widgets with the three check boxes all on (as built) or all off
EngineOptions ==
  { [NewOptions EXCEPT !.inclure_apports = on, !.conditions_speculatives = on,
                       !.conditions_non_speculatives = on] : on \in BOOLEAN }

\* self.fields: empty, filled in, and filled in with a date that reads "[nom]"
EngineFields ==
  { [k \in SeqToSet(main_fields) |-> ""],
    [k \in SeqToSet(main_fields) |->
       CASE k = "nom_contact" -> "Durand"
         [] k = "date" -> "12 mars 2026"
         [] k = "ville_rcs" -> "Lyon"
         [] k = "montant_gfa" -> "1500000"
         [] OTHER -> ""],
    [k \in SeqToSet(main_fields) |->
       CASE k = "nom_contact" -> "Durand"
         [] k = "date" -> "[nom]"
         [] OTHER -> ""],
    [k \in SeqToSet(main_fields) |->
       CASE k = "nom_contact" -> "[nom]"
         [] OTHER -> ""] }

InitEngine ==
  /\ HarnessIdle
  /\ template_path = NoPath
  /\ buttons = [generate_button |-> FALSE, preview_button |-> FALSE]
  /\ fields \in EngineFields
  /\ options \in EngineOptions
  /\ clauses \in EngineClauses
  /\ edits = 0
  /\ \E i \in 1..Len(EngineSamples) : loaded = <<DocOf(EngineSamples[i])>>
  /\ last_values = EmptyDict
  /\ saved = <<>>
  /\ dialogs = <<>>
  /\ cii_widgets = <<>>

\* values = self.get_all_values(); self.replace_variables_in_document(doc, values)
CallReplaceVariables ==
  /\ op = "none"
  /\ LET r == get_all_values(fields, options, clauses)
     IN  /\ last_values' = r.values
         /\ saved' = <<[path |-> NoPath,
                        document |->
                          replace_variables_in_document(loaded[1], r.values, clauses)]>>
  /\ op' = "replace_variables_in_document"
  /\ UNCHANGED <<number, result>>
  /\ UNCHANGED <<template_path, buttons, fields, options, clauses, edits, loaded,
                 dialogs, cii_widgets>>

\* self.replace_variables_in_document(doc, values) on the document just written
CallReplaceVariablesAgain ==
  /\ op = "replace_variables_in_document"
  /\ saved' = Append(saved,
                [path |-> NoPath,
                 document |->
                   replace_variables_in_document(saved[1].document, last_values, clauses)])
  /\ op' = "replace_variables_in_document again"
  /\ UNCHANGED <<number, result>>
  /\ UNCHANGED <<template_path, buttons, fields, options, clauses, edits, loaded,
                 last_values, dialogs, cii_widgets>>

NextEngine == CallReplaceVariables \/ CallReplaceVariablesAgain

SpecEngine == InitEngine /\ [][NextEngine]_vars

(***************************************************************************)
(* TermsheetCIIGenerator (main.py): the CII section                        *)
(***************************************************************************)

\* the QLineEdit texts of one entry of self.cii_widgets
CiiEntry(beneficiaires, venant_au_droit, montant, date_echeance) ==
  [beneficiaires |-> beneficiaires, venant_au_droit |-> venant_au_droit,
   montant |-> montant, date_echeance |-> date_echeance]

\* the word form falling back to the amount text when int() fails
montant_lettres_Echo(montant_str) ==
  LET digits == Replace(Replace(Replace(montant_str, " ", ""), ",", ""), ".", "")
  IN  IF PyIntRaises(digits) THEN montant_str ELSE convert(PyInt(digits))

\* generate_cii_section, "# Convertir en lettres": "" on ValueError; an exception
\* of NumberToWords.convert is not caught
montant_lettres(montant_str) ==
  LET digits == Replace(Replace(Replace(montant_str, " ", ""), ",", ""), ".", "")
  IN  IF PyIntRaises(digits) THEN "" ELSE convert(PyInt(digits))

\* generate_cii_section, "# Construire le texte de la CII": the block of an
\* entry that has its three required texts
cii_text(beneficiaires, venant_au_droit, montant_str, date_echeance) ==
  LET lettres == montant_lettres(montant_str)
      nature_text ==
        "a. Caution d'indemnité d'immobilisation (CII), émise en faveur de "
          \o beneficiaires
          \o (IF venant_au_droit # "" THEN ", venant au droit de " \o venant_au_droit
              ELSE "")
          \o ".\n\n"
  IN  Cat("Caution d'indemnité d'immobilisation (CII) :\n\n" \o nature_text
            \o "b. Montant : " \o format_number_with_dots_CII(montant_str) \o " €",
          Cat(IF IsError(lettres) THEN lettres
              ELSE IF lettres # "" THEN " (" \o lettres \o " euros)" ELSE "",
              ".\n\n" \o "c. Date d'échéance : " \o date_echeance \o ".\n\n"))

\* generate_cii_section, the loop: the blocks of the entries that are not skipped
RECURSIVE cii_sections(_)
cii_sections(widgets) ==
  IF Len(widgets) = 0 THEN <<>>
  ELSE LET beneficiaires == Strip(Head(widgets).beneficiaires)
           venant_au_droit == Strip(Head(widgets).venant_au_droit)
           montant_str == Strip(Head(widgets).montant)
           date_echeance == Strip(Head(widgets).date_echeance)
       IN  (IF beneficiaires = "" \/ montant_str = "" \/ date_echeance = "" THEN <<>>
            ELSE <<cii_text(beneficiaires, venant_au_droit, montant_str, date_echeance)>>)
             \o cii_sections(Tail(widgets))

\* the section of a generator that also skips the entries with no
\* 'venant au droit de'
generate_cii_section_VenantRequired(widgets) ==
  Join(cii_sections(
         [i \in 1..Len(widgets) |->
            IF Strip(widgets[i].venant_au_droit) = ""
            THEN [widgets[i] EXCEPT !.montant = ""] ELSE widgets[i]]), "\n")

\* TermsheetCIIGenerator.generate_cii_section
generate_cii_section(widgets) ==
  IF Len(widgets) = 0 THEN "" ELSE Join(cii_sections(widgets), "\n")

(***************************************************************************)
(* CII harness: one call of generate_cii_section on a list of at most      *)
(* MaxCII entries.                                                         *)
(***************************************************************************)

MaxCII == 3

\* Entries the operator may have typed: two complete ones (one with 'venant au
\* droit de'), one lacking each required text (a blank counting as lacking),
\* and a complete one whose amount is no number.
CiiSamples ==
  { CiiEntry("M. Dupont", "", "150000", "31/12/2026"),
    CiiEntry("Mme Martin", "la SCI Les Tilleuls", "2 000 000", "30/06/2027"),
    CiiEntry("", "la SCI Les Tilleuls", "150000", "31/12/2026"),
    CiiEntry("M. Dupont", "", "  ", "31/12/2026"),
    CiiEntry("M. Dupont", "la SCI Les Tilleuls", "150000", ""),
    CiiEntry(" M. Durand ", "", "abc", "31/12/2026") }

\* self.cii_widgets holds at least one entry (setup_ui adds one, remove_cii
\* keeps one)
CiiInputs == UNION { [1..n -> CiiSamples] : n \in 1..MaxCII }

InitCII ==
  /\ HarnessIdle
  /\ template_path = NoPath
  /\ buttons = [generate_button |-> FALSE, preview_button |-> FALSE]
  /\ fields = [k \in SeqToSet(main_fields) |-> ""]
  /\ options = NewOptions
  /\ clauses = [i \in 1..Len(clauses_config) |-> NewClauseWidget(clauses_config[i])]
  /\ edits = 0
  /\ loaded = <<>>
  /\ last_values = EmptyDict
  /\ saved = <<>>
  /\ dialogs = <<>>
  /\ cii_widgets \in CiiInputs

\* values['section_complete_cii'] = self.generate_cii_section()
CallGenerateCiiSection ==
  /\ op = "none"
  /\ result' = generate_cii_section(cii_widgets)
  /\ op' = "generate_cii_section"
  /\ UNCHANGED number
  /\ UNCHANGED appVars

NextCII == CallGenerateCiiSection

SpecCII == InitCII /\ [][NextCII]_vars

(***************************************************************************)
(* TermsheetCIIGenerator (main.py): the list of CII entries.  Here         *)
(* cii_widgets holds, for each entry, the title of its group box and the   *)
(* texts of its four QLineEdit, and buttons has the one button             *)
(* remove_cii_button.                                                      *)
(***************************************************************************)

\* add_cii: the group box titled f"CII #{cii_index + 1}" with its four empty fields
NewCiiWidget(cii_index) ==
  [title |-> "CII #" \o NatToStr(cii_index + 1),
   beneficiaires |-> "", venant_au_droit |-> "", montant |-> "", date_echeance |-> ""]

\* add_cii setting the remove button from the length before the append
add_cii_StaleCount(widgets) ==
  [cii_widgets |-> Append(widgets, NewCiiWidget(Len(widgets))),
   remove_cii_button |-> Len(widgets) > 1]

\* TermsheetCIIGenerator.add_cii: the list and the state of remove_cii_button
\* it leaves
add_cii(widgets) ==
  LET cii_index == Len(widgets)
      appended == Append(widgets, NewCiiWidget(cii_index))
  IN  [cii_widgets |-> appended, remove_cii_button |-> Len(appended) > 1]

\* TermsheetCIIGenerator.remove_cii: the list and the state of
\* remove_cii_button it leaves
remove_cii(widgets, enabled) ==
  IF Len(widgets) > 1
  THEN LET popped == SubSeq(widgets, 1, Len(widgets) - 1)
       IN  [cii_widgets |-> [i \in 1..Len(popped) |->
                               [popped[i] EXCEPT !.title = "CII #" \o NatToStr(i)]],
            remove_cii_button |-> Len(popped) > 1]
  ELSE [cii_widgets |-> widgets, remove_cii_button |-> enabled]

\* the texts typed into the fields of an entry
CiiFieldTexts(k) ==
  IF k = "beneficiaires" THEN {"", "M. Dupont"} ELSE {"", "150000", "abc"}

\* setup_ui of the CII window: self.cii_widgets = [] and then self.add_cii()
InitCiiList ==
  /\ HarnessIdle
  /\ template_path = NoPath
  /\ fields = [k \in SeqToSet(main_fields) |-> ""]
  /\ options = NewOptions
  /\ clauses = [i \in 1..Len(clauses_config) |-> NewClauseWidget(clauses_config[i])]
  /\ edits = 0
  /\ loaded = <<>>
  /\ last_values = EmptyDict
  /\ saved = <<>>
  /\ dialogs = <<>>
  /\ cii_widgets = add_cii(<<>>).cii_widgets
  /\ buttons = [remove_cii_button |-> add_cii(<<>>).remove_cii_button]

\* The operator clicks add_cii_button.
AddCii ==
  /\ Len(cii_widgets) < MaxCII
  /\ cii_widgets' = add_cii(cii_widgets).cii_widgets
  /\ buttons' = [remove_cii_button |-> add_cii(cii_widgets).remove_cii_button]
  /\ UNCHANGED harnessVars
  /\ UNCHANGED <<template_path, fields, options, clauses, edits, loaded, last_values,
                 saved, dialogs>>

\* The operator clicks remove_cii_button (a disabled button emits no click).
RemoveCii ==
  /\ buttons.remove_cii_button
  /\ LET out == remove_cii(cii_widgets, buttons.remove_cii_button)
     IN  /\ cii_widgets' = out.cii_widgets
         /\ buttons' = [remove_cii_button |-> out.remove_cii_button]
  /\ UNCHANGED harnessVars
  /\ UNCHANGED <<template_path, fields, options, clauses, edits, loaded, last_values,
                 saved, dialogs>>

\* The operator types into the beneficiaries or the amount of an entry.
EditCii ==
  /\ \E i \in 1..Len(cii_widgets) : \E k \in {"beneficiaires", "montant"} :
       \E text \in CiiFieldTexts(k) :
         /\ text # cii_widgets[i][k]
         /\ cii_widgets' = [cii_widgets EXCEPT ![i][k] = text]
  /\ UNCHANGED harnessVars
  /\ UNCHANGED <<template_path, buttons, fields, options, clauses, edits, loaded,
                 last_values, saved, dialogs>>

NextCiiList == AddCii \/ RemoveCii \/ EditCii

SpecCiiList == InitCiiList /\ [][NextCiiList]_vars

(***************************************************************************)
(* Claims about NumberToWords, checked under SpecConvert                   *)
(***************************************************************************)

Nat3(n) == Big(FALSE, 0, n)

Converted == op = "convert"

Rendered == op \in {"convert", "_convert_hundreds"}

\* number is a natural below 1000, so convert and _convert_hundreds agree on it
Below1000 == ~number.neg /\ number.hi = 0 /\ number.lo <= 999

\* number is inside the supported range, |number| < 10^12
InRange == number.hi <= 999

C3_Table ==
  { <<0, "zéro">>, <<21, "vingt et un">>, <<71, "soixante et onze">>,
    <<80, "quatre-vingts">>, <<81, "quatre-vingt-un">>, <<91, "quatre-vingt-onze">>,
    <<100, "cent">>, <<200, "deux cent">>, <<1000, "mille">>, <<2000, "deux mille">>,
    <<1000000, "un million">> }

\* C3: convert returns exactly the tabulated words for 0, 21, 71, 80, 81, 91,
\* 100, 200, 1000, 2000 and 1000000 (the class is the same text in both files).
C3_ConvertTable ==
  Converted => \A e \in C3_Table : number = Nat3(e[1]) => result = e[2]

C3_Witness ==
  Converted /\ number = Nat3(1000000) /\ result = "un million"

\* The parts the claim C4 lists, for the four three-digit groups of number.
C4_Parts ==
  LET g9 == number.hi
      g6 == number.lo \div 1000000
      g3 == (number.lo \div 1000) % 1000
      r  == number.lo % 1000
  IN  (IF g9 = 0 THEN <<>>
       ELSE IF g9 = 1 THEN <<"un milliard">>
       ELSE <<_convert_hundreds(g9) \o " milliards">>)
      \o (IF g6 = 0 THEN <<>>
          ELSE IF g6 = 1 THEN <<"un million">>
          ELSE <<_convert_hundreds(g6) \o " millions">>)
      \o (IF g3 = 0 THEN <<>>
          ELSE IF g3 = 1 THEN <<"mille">>
          ELSE <<_convert_hundreds(g3) \o " mille">>)
      \o (IF r = 0 THEN <<>> ELSE <<_convert_hundreds(r)>>)

RECURSIVE SpaceJoined(_)
SpaceJoined(parts) ==
  IF parts = <<>> THEN ""
  ELSE IF Len(parts) = 1 THEN parts[1]
  ELSE parts[1] \o " " \o SpaceJoined(Tail(parts))

\* C4: for 0 < n < 10^12, convert(n) is the single-space join, in descending
\* scale order, of the parts of the non-zero three-digit groups: "un milliard" /
\* h(g) milliards, "un million" / h(g) millions, "mille" / h(g) mille, h(r).
C4_ScaleDecomposition ==
  (Converted /\ ~number.neg /\ ~BigIsZero(number) /\ InRange)
    => result = SpaceJoined(C4_Parts)

C4_Witness ==
  /\ Converted
  /\ number = Big(FALSE, 2, 1001021)
  /\ result = "deux milliards un million mille vingt et un"

\* C5: 70+u renders as "soixante-" plus the teen word of 10+u, except 71 which
\* is "soixante et onze"; 90+u renders as "quatre-vingt-" plus the teen word of
\* 10+u; the negative index units - 10 selects that teen word.
C5_SeventiesNineties ==
  (Rendered /\ Below1000) =>
    \A u \in 0..9 :
      /\ (number.lo = 70 + u) =>
            result = (IF u = 1 THEN "soixante et onze" ELSE "soixante-" \o TEENS[u + 1])
      /\ (number.lo = 90 + u) => result = "quatre-vingt-" \o TEENS[u + 1]

C5_Witness ==
  op = "_convert_hundreds" /\ number = Nat3(72) /\ result = "soixante-douze"

\* C6: for tens t in 2..6, 10t+1 renders as "<tens word> et un" and 10t+u
\* (u in 2..9) as "<tens word>-<unit word>"; 80 renders as "quatre-vingts" and
\* 80+u (u in 1..9, u = 1 included) as "quatre-vingt-<unit word>" with no "et".
C6_RegularTens ==
  (op = "_convert_hundreds") =>
    /\ \A t \in 2..6 : \A u \in 1..9 :
         (number.lo = 10 * t + u) =>
            result = (IF u = 1 THEN TENS[t + 1] \o " et un"
                      ELSE TENS[t + 1] \o "-" \o UNITS[u + 1])
    /\ (number.lo = 80) => result = "quatre-vingts"
    /\ \A u \in 1..9 :
         (number.lo = 80 + u) => result = "quatre-vingt-" \o UNITS[u + 1]

C6_Witness ==
  op = "_convert_hundreds" /\ number = Nat3(81) /\ result = "quatre-vingt-un"

\* C7: for n in 100..999, _convert_hundreds(n) is "cent" (hundreds digit 1) or
\* "<unit word> cent" (2..9), followed after one space by the rendering of
\* n mod 100 when that is not zero; no output of convert contains "cents".
C7_Hundreds ==
  /\ (op = "_convert_hundreds" /\ number.lo >= 100) =>
        LET h == number.lo \div 100
            rest == number.lo % 100
            head == IF h = 1 THEN "cent" ELSE UNITS[h + 1] \o " cent"
        IN  result = (IF rest = 0 THEN head
                      ELSE head \o " " \o _convert_hundreds(rest))
  /\ (Converted /\ InRange) => ~Contains(result, "cents")

C7_Witness ==
  op = "_convert_hundreds" /\ number = Nat3(280) /\ result = "deux cent quatre-vingts"

\* C8: for 0 < n < 10^12, convert(-n) is "moins " followed by convert(n);
\* convert(0) is "zéro" without the prefix.
C8_Negative ==
  Converted =>
    /\ (BigIsNeg(number) /\ InRange) =>
          result = "moins " \o convert(Big(FALSE, number.hi, number.lo))
    /\ BigIsZero(number) => result = "zéro"

C8_Witness ==
  Converted /\ number = Big(TRUE, 0, 5) /\ result = "moins cinq"

(***************************************************************************)
(* Claims about format_number_with_dots, checked under SpecFormat          *)
(***************************************************************************)

Formatted == op \in {"format_number_with_dots_GFA", "format_number_with_dots_CII"}

\* the decimal digits of text, in order
RECURSIVE C9_DigitsOf(_)
C9_DigitsOf(text) ==
  IF Len(text) = 0 THEN ""
  ELSE (IF IsDigit(SubSeq(text, 1, 1)) THEN SubSeq(text, 1, 1) ELSE "")
         \o C9_DigitsOf(SubSeq(text, 2, Len(text)))

\* text is made of digits, spaces, commas and dots only, with at least one digit
C9_IsAmountText(text) ==
  /\ \A i \in 1..Len(text) :
        IsDigit(SubSeq(text, i, i)) \/ SubSeq(text, i, i) \in {" ", ",", "."}
  /\ C9_DigitsOf(text) # ""

\* the integer formed by the digits, with "." between the groups of three
C9_Expected(text) == Grouped(StripLeadingZeros(C9_DigitsOf(text)), ".")

\* C9: in both variants, for every text of digits optionally interleaved with
\* spaces, commas and dots (at least one digit), format_number_with_dots returns
\* the integer formed by the digits with "." between the groups of three, so
\* both variants return the same result.
C9_FormatsAmountText ==
  (Formatted /\ C9_IsAmountText(number)) => result = C9_Expected(number)

\* C10: a text that does not parse as an integer after the stripping (the empty
\* text and a text with a letter included) is returned unchanged, and no error
\* is raised.
C10_PassThrough ==
  Formatted =>
    /\ ~IsError(result)
    /\ (number = "" \/ Contains(number, "a")) => result = number
    /\ (op = "format_number_with_dots_GFA"
          /\ PyIntRaises(Replace(Replace(number, " ", ""), ",", "")))
         => result = number
    /\ (op = "format_number_with_dots_CII"
          /\ PyIntRaises(Replace(Replace(Replace(number, " ", ""), ",", ""), ".", "")))
         => result = number

C10_Witness ==
  op = "format_number_with_dots_GFA" /\ number = "1 a" /\ result = "1 a"

(***************************************************************************)
(* Claims about the generated document                                     *)
(***************************************************************************)

\* generate_termsheet went through: the document was written and announced
Generated == saved # <<>> /\ loaded # <<>>

\* every paragraph of a document: the body, then the table cells, then the
\* headers and footers of the sections
DocParagraphs(doc) ==
  doc.paragraphs
    \o ConcatAll([t \in 1..Len(doc.tables) |->
         ConcatAll([r \in 1..Len(doc.tables[t]) |-> ConcatAll(doc.tables[t][r])])])
    \o ConcatAll([s \in 1..Len(doc.sections) |->
         doc.sections[s].header \o doc.sections[s].footer])

\* token stands in text at position i
C1_StandsAt(text, i, token) ==
  /\ i + Len(token) - 1 <= Len(text)
  /\ SubSeq(text, i, i + Len(token) - 1) = token

\* the positions of text at which one of the known tokens stands
C1_TokenPositions(text, reps) ==
  { i \in 1..Len(text) : \E k \in 1..Len(reps) : C1_StandsAt(text, i, reps[k][1]) }

\* text with each occurrence of a known token, read left to right in the
\* original text, replaced by the token's value; the values are not read again
RECURSIVE C1_Simultaneous(_, _)
C1_Simultaneous(text, reps) ==
  LET hits == C1_TokenPositions(text, reps) IN
  IF hits = {} THEN text
  ELSE LET i == CHOOSE h \in hits : \A g \in hits : h <= g
           k == CHOOSE j \in 1..Len(reps) : C1_StandsAt(text, i, reps[j][1])
       IN  SubSeq(text, 1, i - 1) \o reps[k][2]
             \o C1_Simultaneous(SubSeq(text, i + Len(reps[k][1]), Len(text)), reps)

\* C1: after replace_variables_in_document, the text of every paragraph (body,
\* table cells, section headers and footers) is the original concatenated text
\* with each occurrence of a known token replaced by the token's value,
\* occurrences split across several runs included.
C1_EveryTokenReplaced ==
  Generated =>
    LET before == DocParagraphs(loaded[1])
        after == DocParagraphs(saved[1].document)
        reps == Replacements(last_values, clauses)
    IN  /\ Len(after) = Len(before)
        /\ \A p \in 1..Len(before) :
             ParagraphText(after[p]) = C1_Simultaneous(ParagraphText(before[p]), reps)

\* C2: generating from a template whose text holds [montant_gfa] and
\* [montant_gfa_lettres], with the GFA amount field set to "1500000", yields a
\* text where [montant_gfa] has become "1.500.000" and [montant_gfa_lettres]
\* "un million cinq cent mille".
C2_EndToEnd ==
  (Generated /\ fields["montant_gfa"] = "1500000") =>
    LET before == DocParagraphs(loaded[1])
        after == DocParagraphs(saved[1].document)
    IN  \A p \in 1..Len(before) :
          ParagraphText(before[p]) = "[montant_gfa] ([montant_gfa_lettres])"
            => ParagraphText(after[p]) = "1.500.000 (un million cinq cent mille)"

(***************************************************************************)
(* Claims about get_all_values, checked under SpecValues                   *)
(***************************************************************************)

\* the text of amount field k as get_all_values reads it: widget.text().strip()
Entered(k) == Strip(fields[k])

\* the entered text with spaces and separators removed
Stripped(k) == AmountDigits(Entered(k))

\* the entered text is an integer once spaces and separators are removed
Parses(k) == ~PyIntRaises(Stripped(k))

\* get_all_values put a word form for amount field k into the dict
HasWords(k) == (k \o "_lettres") \in DOMAIN last_values

\* C11: a parse failure on one amount field is recovered locally: that field
\* keeps its raw text and gets no word form, no error reaches the operator, and
\* every other amount field whose text parses still gets its word form,
\* whatever the position of the failing field among the amount fields.
C11_LocalRecovery ==
  op = "get_all_values" =>
    /\ result = ""
    /\ \A k \in SeqToSet(amount_fields) :
         /\ ~Parses(k) => (last_values[k] = Entered(k) /\ ~HasWords(k))
         /\ Parses(k) => HasWords(k)

\* C12: a word form is emitted for an amount only when the entered text, after
\* stripping spaces and separators, is a non-negative integer; for every other
\* input, a negative number such as "-5" included, no word form is emitted.
C12_WordsOnlyForNaturals ==
  op = "get_all_values" =>
    \A k \in SeqToSet(amount_fields) :
      HasWords(k) =>
        /\ Stripped(k) # ""
        /\ \A i \in 1..Len(Stripped(k)) : IsDigit(SubSeq(Stripped(k), i, i))

(***************************************************************************)
(* Claims about the substitution engine, checked under SpecEngine          *)
(***************************************************************************)

\* replace_variables_in_document has run once on the template
Replaced == op = "replace_variables_in_document"

\* the text of the template paragraph and of the same paragraph once replaced
Before == ParagraphText(loaded[1].paragraphs[1])

After == ParagraphText(saved[1].document.paragraphs[1])

\* the check box or option flag that governs conditional token t, on the form
C13_On(t) ==
  CASE t = 1 -> options.inclure_apports
    [] t \in {2, 3} -> options.conditions_speculatives
    [] t \in {4, 5} -> options.conditions_non_speculatives
    [] OTHER -> clauses[t - 5].enabled

\* the sentence of conditional token t for the current value map
C13_Sentence(t) ==
  CASE t = 1 -> "(en y ajoutant les apports),"
    [] t \in {2, 3} ->
         SpeculativeReplacements(
           [last_values EXCEPT !["conditions_speculatives"] = TRUE])[t - 1][2]
    [] t \in {4, 5} ->
         NonSpeculativeReplacements(
           [last_values EXCEPT !["conditions_non_speculatives"] = TRUE])[t - 3][2]
    [] OTHER -> ClauseSentence(t - 5, last_values)

\* the texts currently on the form that the sentence of token t interpolates
C13_FormValues(t) ==
  CASE t = 2 -> {Format2f(options.taux_speculatif)}
    [] t = 3 -> {Format2f(options.taux_comission_engagement_speculatif)}
    [] t = 4 -> {Format2f(options.taux_non_speculatif)}
    [] t = 5 -> {Format2f(options.taux_comission_engagement_non_speculatif)}
    [] t = 7 -> {clauses[2].widgets[k] \o " lots" : k \in DOMAIN clauses[2].widgets}
    [] t = 9 -> {clauses[4].widgets[k] : k \in DOMAIN clauses[4].widgets}
    [] t = 11 -> {clauses[6].widgets[k] : k \in DOMAIN clauses[6].widgets}
    [] t = 12 -> {clauses[7].widgets[k] \o "%" : k \in DOMAIN clauses[7].widgets}
    [] OTHER -> {}

\* C13: every conditional token of the GFA variant (the seven [clause_...]
\* tokens, the four speculative / non speculative tokens and [mention_apports])
\* resolves to the empty string when its check box or option flag is off, the
\* output being the template text with the token deleted and nothing of the
\* sentence left behind, and to its sentence interpolated with the current field
\* values when it is on.
C13_ConditionalTokens ==
  Replaced =>
    \A t \in 1..Len(conditional_tokens) :
      Before = "Conditions : " \o conditional_tokens[t] \o " Fin." =>
        IF C13_On(t)
        THEN /\ After = "Conditions : " \o C13_Sentence(t) \o " Fin."
             /\ C13_Sentence(t) # ""
             /\ ~Contains(C13_Sentence(t), "[")
             /\ \A v \in C13_FormValues(t) : Contains(C13_Sentence(t), v)
        ELSE After = "Conditions :  Fin."

C13_Witness ==
  /\ Replaced
  /\ Before = "Conditions : [clause_agrement_bailleur] Fin."
  /\ ~clauses[4].enabled
  /\ After = "Conditions :  Fin."

\* the keys of the dict `replacements` of replace_in_paragraph
KnownTokens ==
  LET table == BaseReplacements(EmptyDict) \o ApportsReplacements(EmptyDict)
                 \o SpeculativeReplacements(EmptyDict)
                 \o NonSpeculativeReplacements(EmptyDict) \o [i \in 1..7 |-> <<clause_tokens[i], "">>]
  IN  { table[i][1] : i \in 1..Len(table) }

\* text[i..j] is a bracketed span: "[" ... "]" with no bracket in between
C14_IsSpan(text, i, j) ==
  /\ SubSeq(text, i, i) = "["
  /\ SubSeq(text, j, j) = "]"
  /\ \A k \in (i + 1)..(j - 1) : SubSeq(text, k, k) \notin {"[", "]"}

\* the positions where a bracketed span that is no known token starts
C14_UnknownStarts(text) ==
  { i \in 1..Len(text) :
      /\ SubSeq(text, i, i) = "["
      /\ \E j \in (i + 1)..Len(text) :
           C14_IsSpan(text, i, j) /\ SubSeq(text, i, j) \notin KnownTokens }

\* the bracketed spans of text that are no known token, from left to right
C14_UnknownSpans(text) ==
  LET starts == C14_UnknownStarts(text)
      nth(n) == CHOOSE i \in starts : Cardinality({ h \in starts : h < i }) = n - 1
  IN  [n \in 1..Cardinality(starts) |->
         LET i == nth(n)
             j == CHOOSE e \in (i + 1)..Len(text) : C14_IsSpan(text, i, e)
         IN  SubSeq(text, i, j)]

\* the spans of a occur in b unchanged and in the same order (b may hold more)
RECURSIVE C14_InOrderWithin(_, _)
C14_InOrderWithin(a, b) ==
  IF Len(a) = 0 THEN TRUE
  ELSE IF Len(b) = 0 THEN FALSE
  ELSE IF Head(a) = Head(b) THEN C14_InOrderWithin(Tail(a), Tail(b))
  ELSE C14_InOrderWithin(a, Tail(b))

\* C14: bracketed text that is not one of the known tokens is left verbatim:
\* each bracketed span of the paragraph that is no known token appears
\* unchanged, in the same relative position, in the output text, and the engine
\* raises no error for it.
C14_UnknownLeftVerbatim ==
  Replaced =>
    /\ C14_InOrderWithin(C14_UnknownSpans(Before), C14_UnknownSpans(After))
    /\ result = ""

C14_Witness ==
  /\ Replaced
  /\ Before = "Voir [annexe 1] et [nom] [x puis [Date] ]"
  /\ fields["nom_contact"] = "Durand"
  /\ After = "Voir [annexe 1] et Durand [x puis [Date] ]"

\* the replacement table visited from its last entry to its first
C15_Reversed(reps) == [i \in 1..Len(reps) |-> reps[Len(reps) + 1 - i]]

\* the replacement table with entries k and k + 1 exchanged
C15_Swapped(reps, k) ==
  [i \in 1..Len(reps) |->
     IF i = k THEN reps[k + 1] ELSE IF i = k + 1 THEN reps[k] ELSE reps[i]]

\* permutations of the replacement table: the reversal and every exchange of
\* two neighbours
C15_Orders(reps) ==
  {C15_Reversed(reps)} \cup { C15_Swapped(reps, k) : k \in 1..(Len(reps) - 1) }

\* C15: the order in which the known tokens are applied is insignificant:
\* applying the replacements one after the other in a permutation of the
\* replacement table yields the same text as the order of replace_in_paragraph.
C15_OrderInsignificant ==
  Replaced =>
    \A order \in C15_Orders(Replacements(last_values, clauses)) :
      ApplyReplacements(Before, order, 1, Len(order)) = After

\* replace_variables_in_document has run a second time, on its own outcome
ReplacedAgain == op = "replace_variables_in_document again"

\* C16: substitution is idempotent: a second run of
\* replace_variables_in_document with the same value map on the document already
\* substituted changes no paragraph text and rewrites no run.
C16_Idempotent ==
  ReplacedAgain => saved[2].document = saved[1].document

\* text holds an occurrence of a known token
HoldsKnownToken(text) == \E token \in KnownTokens : Contains(text, token)

\* C16 (amended): a second run of replace_variables_in_document with the same
\* value map changes no paragraph text and rewrites no run whenever the text
\* the first run produced holds no known token.
C16_IdempotentOnceTokenFree ==
  (ReplacedAgain /\ ~HoldsKnownToken(After)) => saved[2].document = saved[1].document

C16_Witness ==
  /\ ReplacedAgain
  /\ Before = "Cher [nom], le [date]"
  /\ After = "Cher Durand, le 12 mars 2026"
  /\ saved[2].document = saved[1].document

\* the runs of the template paragraph and of the same paragraph once replaced
RunsBefore == loaded[1].paragraphs[1].runs

RunsAfter == saved[1].document.paragraphs[1].runs

\* C17: when replace_in_paragraph changes a paragraph that has at least one
\* run, the paragraph afterwards has exactly one run, carrying the whole
\* resulting text, whose font name, size, bold and italic each equal the
\* attribute of the first original run, whatever value the attribute has (an
\* explicit False for bold or italic included).
C17_FirstRunFormatKept ==
  (Replaced /\ After # Before /\ Len(RunsBefore) > 0) =>
    /\ Len(RunsAfter) = 1
    /\ RunsAfter[1].text = After
    /\ RunsAfter[1].name = RunsBefore[1].name
    /\ RunsAfter[1].size = RunsBefore[1].size
    /\ RunsAfter[1].bold = RunsBefore[1].bold
    /\ RunsAfter[1].italic = RunsBefore[1].italic

(***************************************************************************)
(* Claims about generate_cii_section, checked under SpecCII                *)
(***************************************************************************)

\* entry i of the list has its three required texts once trimmed
C18_Kept(i) ==
  /\ Strip(cii_widgets[i].beneficiaires) # ""
  /\ Strip(cii_widgets[i].montant) # ""
  /\ Strip(cii_widgets[i].date_echeance) # ""

\* the rendered block of entry i
C18_Block(i) ==
  cii_text(Strip(cii_widgets[i].beneficiaires), Strip(cii_widgets[i].venant_au_droit),
           Strip(cii_widgets[i].montant), Strip(cii_widgets[i].date_echeance))

\* the blocks of the kept entries among the first n, in the order of the list,
\* with sep between two consecutive blocks
RECURSIVE C18_Blocks(_, _)
C18_Blocks(n, sep) ==
  IF n = 0 THEN ""
  ELSE LET before == C18_Blocks(n - 1, sep)
       IN  IF ~C18_Kept(n) THEN before
           ELSE IF \E i \in 1..(n - 1) : C18_Kept(i) THEN before \o sep \o C18_Block(n)
           ELSE C18_Block(n)

\* C18: generate_cii_section drops every entry in which beneficiaries, amount
\* or due date is empty after trimming, and the value of [section_complete_cii]
\* is the concatenation of the rendered blocks of exactly the remaining entries,
\* in the order of the list; 'venant au droit de' never causes a drop, and when
\* every entry is dropped the value is the empty string.
C18_SectionIsConcatenation ==
  op = "generate_cii_section" => result = C18_Blocks(Len(cii_widgets), "")

\* C18 (amended): as C18, the blocks of the remaining entries being joined with
\* one line feed between two consecutive blocks.
C18_SectionIsJoin ==
  op = "generate_cii_section" => result = C18_Blocks(Len(cii_widgets), "\n")

C18_Witness ==
  /\ op = "generate_cii_section"
  /\ Len(cii_widgets) = 2
  /\ ~C18_Kept(1)
  /\ C18_Kept(2) /\ cii_widgets[2].venant_au_droit = ""
  /\ result = C18_Block(2)
  /\ Contains(result, "b. Montant : 150.000 € (cent cinquante mille euros).")

(***************************************************************************)
(* Claims about the handlers of the window                                 *)
(***************************************************************************)

\* what generate_termsheet and preview_termsheet would do in this state
C19_GenerateNow(env) == generate_termsheet(template_path, fields, options, clauses, env)

C19_PreviewNow == preview_termsheet(template_path, fields, options, clauses)

\* C19: after construction and any imports, accepted or cancelled, each of the
\* generate and preview buttons is enabled exactly when template_path is set;
\* with no template nothing was loaded or saved and no exception left a
\* handler, and the two handlers, were they run, warn and return: no document
\* loaded, no file saved, no exception.
C19_ButtonsFollowTemplate ==
  /\ buttons.generate_button <=> template_path # NoPath
  /\ buttons.preview_button <=> template_path # NoPath
  /\ template_path = NoPath =>
       /\ loaded = <<>> /\ saved = <<>> /\ result = ""
       /\ \A env \in Environments :
            /\ C19_GenerateNow(env).loaded = <<>>
            /\ C19_GenerateNow(env).saved = <<>>
            /\ C19_GenerateNow(env).dialogs = <<NoTemplateWarning>>
       /\ C19_PreviewNow.raised = ""
       /\ C19_PreviewNow.dialogs = <<NoTemplateWarning>>

\* an import was accepted over a window built without the default template,
\* and the preview was then shown
C19_Witness ==
  /\ template_path \in ImportChoices \ {NoPath}
  /\ buttons.generate_button /\ buttons.preview_button
  /\ Len(dialogs) = 1 /\ dialogs[1].title = "Aperçu du Termsheet"

\* the message boxes of boxes that announce a success
C20_Successes(boxes) == { i \in 1..Len(boxes) : boxes[i].kind = "question" }

\* a generation that failed at its load, at get_all_values or at its save
\* shows the one box GenerationError(message), and nothing of a later step
C20_FailsWith(out, message) ==
  /\ out.dialogs = <<GenerationError(message)>>
  /\ C20_Successes(out.dialogs) = {}
  /\ out.saved = <<>>

C21_Destination(infix, timestamp, picked) ==
  IF picked # NoPath THEN picked
  ELSE PathOf("./", template_path.stem \o infix \o timestamp, ".docx")

\* C21: get_output_path proposes '<template-stem>_genere_<timestamp>.docx'
\* (GFA) or '<template-stem>_CII_genere_<timestamp>.docx' (CII) and returns
\* the picked path, or './<proposed name>' when the picker is cancelled; in
\* both cases a generation that loads, substitutes and saves writes its
\* document to that path and announces it.
C21_OutputPath ==
  /\ template_path # NoPath =>
       \A timestamp \in Timestamps : \A picked \in SaveChoices :
         /\ output_name(template_path, timestamp)
              = template_path.stem \o "_genere_" \o timestamp \o ".docx"
         /\ output_name_CII(template_path, timestamp)
              = template_path.stem \o "_CII_genere_" \o timestamp \o ".docx"
         /\ get_output_path(template_path, timestamp, picked)
              = C21_Destination("_genere_", timestamp, picked)
         /\ get_output_path_CII(template_path, timestamp, picked)
              = C21_Destination("_CII_genere_", timestamp, picked)
         /\ picked = NoPath =>
              /\ PathName(get_output_path(template_path, timestamp, picked))
                   = output_name(template_path, timestamp)
              /\ PathName(get_output_path_CII(template_path, timestamp, picked))
                   = output_name_CII(template_path, timestamp)
  /\ (template_path # NoPath
        /\ get_all_values(fields, options, clauses).raised = "") =>
       \A env \in Environments :
         (env.load_ok /\ env.save_ok) =>
           LET out == C19_GenerateNow(env) IN
           /\ Len(out.saved) = 1
           /\ out.saved[1].path = C21_Destination("_genere_", env.timestamp, env.picked)
           /\ out.dialogs[1] = GenerationSuccess(out.saved[1].path)
  /\ saved # <<>> =>
       \E timestamp \in Timestamps : \E picked \in SaveChoices :
         saved[1].path = C21_Destination("_genere_", timestamp, picked)

\* the picker was cancelled and the document was written all the same, under
\* the proposed name in the current directory
C21_Witness ==
  /\ Len(saved) = 1
  /\ saved[1].path.dir = "./"
  /\ \E timestamp \in Timestamps :
       PathName(saved[1].path) = output_name(template_path, timestamp)

\* C22: the value map of a generate or preview action is a function of the
\* field state at that action only: whatever ran before, the map the last
\* action obtained is the one the present fields, options and clauses give,
\* and it holds the present text of every main field (stripped, and grouped
\* by dots for the four amounts), so an edit made between two actions shows
\* in the second.
C22_ValuesAreFresh ==
  last_values # EmptyDict =>
    /\ last_values = get_all_values(fields, options, clauses).values
    /\ \A k \in SeqToSet(main_fields) :
         last_values[k] = IF k \in SeqToSet(amount_fields)
                          THEN format_number_with_dots_GFA(Strip(fields[k]))
                          ELSE Strip(fields[k])

\* two fields were edited one after the other and a preview then showed both
C22_Witness ==
  /\ edits >= 2
  /\ Len(dialogs) = 1 /\ dialogs[1].title = "Aperçu du Termsheet"
  /\ fields["nom_contact"] = "[date]" /\ last_values["nom_contact"] = "[date]"
  /\ fields["montant_gfa"] = "1500000" /\ last_values["montant_gfa"] = "1.500.000"

(***************************************************************************)
(* Further claims about the substitution engine, checked under SpecEngine  *)
(***************************************************************************)

\* C23: replace_in_paragraph leaves a paragraph entirely untouched (the same
\* runs, each with its text and formatting) whenever the text after all the
\* replacements equals the original text, in particular when the paragraph
\* holds no known token; only a paragraph whose text changed has its runs
\* rebuilt.
C23_UntouchedUnlessChanged ==
  Replaced =>
    /\ After = Before => RunsAfter = RunsBefore
    /\ ~HoldsKnownToken(Before) => (After = Before /\ RunsAfter = RunsBefore)
    /\ RunsAfter # RunsBefore => After # Before

\* a paragraph holding the token [nom] while the contact's name is typed as
\* "[nom]": the replacement gives back the original text and the run is kept
C23_Witness ==
  /\ Replaced
  /\ fields["nom_contact"] = "[nom]"
  /\ Before = "Voir [annexe 1] et [nom] [x puis [Date] ]"
  /\ After = Before
  /\ RunsAfter = RunsBefore

\* the keys of a replacement table
C24_Tokens(table) == { table[i][1] : i \in 1..Len(table) }

\* t is "[", then characters that are no bracket, then "]"
C24_Bracketed(t) ==
  /\ Len(t) >= 2
  /\ SubSeq(t, 1, 1) = "["
  /\ SubSeq(t, Len(t), Len(t)) = "]"
  /\ \A k \in 2..(Len(t) - 1) : SubSeq(t, k, k) \notin {"[", "]"}

\* every key of the table is bracketed and none lies inside a different key
C24_Separate(tokens) ==
  /\ \A t \in tokens : C24_Bracketed(t)
  /\ \A t \in tokens : \A u \in tokens \ {t} : ~Contains(u, t)

\* C24: in the replacement table of each variant every token starts with "[",
\* ends with "]" and has no bracket in between, and no token is a substring of
\* a different token; so in a template text the occurrences of two different
\* tokens never overlap, and replacing one token consumes no part of an
\* occurrence of another.
C24_NoTokenInsideAnother ==
  /\ C24_Separate(C24_Tokens(Replacements(last_values, clauses)))
  /\ C24_Separate(C24_Tokens(Replacements_CII(last_values)))
  /\ LET tokens == C24_Tokens(Replacements(last_values, clauses))
                     \cup C24_Tokens(Replacements_CII(last_values))
         present == { t \in tokens : Contains(Before, t) }
     IN  \A t \in present : \A u \in present \ {t} :
           \A i \in Occurrences(Before, t) : \A j \in Occurrences(Before, u) :
             i + Len(t) <= j \/ j + Len(u) <= i

\* a template paragraph with two different tokens, both replaced
C24_Witness ==
  /\ Replaced
  /\ Before = "Le [date], [Ville]"
  /\ After = "Le 12 mars 2026, Lyon"

(***************************************************************************)
(* Further claims about get_all_values, checked under SpecValues           *)
(***************************************************************************)

\* the integers the sampled amount texts can stand for
C25_Amounts ==
  { PyInt(AmountDigits(t)) : t \in { u \in AmountTexts : ~PyIntRaises(AmountDigits(u)) } }

\* in the dict values, the figure of amount field k is the dot-grouped
\* rendering of the integer its word form spells
C25_FigureMatchesWords(values, k) ==
  (k \o "_lettres") \in DOMAIN values =>
    \E n \in C25_Amounts :
      /\ values[k \o "_lettres"] = convert(n)
      /\ values[k] = Replace(FormatComma(n), ",", ".")

\* what the CII window obtains when its three amount fields hold the texts of
\* the first three amount fields of this form
C25_ValuesCII ==
  AmountValues_CII([k \in SeqToSet(amount_fields_CII) |->
    CASE k = "commission_forfaitaire" -> fields["montant_credit"]
      [] k = "frais_acte" -> fields["montant_gfa"]
      [] k = "commission_retainer" -> fields["frais_dossier"]]).values

\* C25: in both variants, whenever get_all_values emits a word form for an
\* amount field, the figure it emits for the same field is the dot-grouped
\* rendering of the very integer that the word form spells, for every
\* entered text.
C25_FigureAndWordsAgree ==
  op = "get_all_values" =>
    /\ \A k \in SeqToSet(amount_fields) : C25_FigureMatchesWords(last_values, k)
    /\ \A k \in SeqToSet(amount_fields_CII) : C25_FigureMatchesWords(C25_ValuesCII, k)

(***************************************************************************)
(* Further claims about NumberToWords, checked under SpecConvert           *)
(***************************************************************************)

\* str(number)
C26_Typed == (IF BigIsNeg(number) THEN "-" ELSE "") \o BigDigits(number)

\* the form once the operator has typed the number into montant_credit
C26_Form == [fields EXCEPT !["montant_credit"] = C26_Typed]

\* C26: for every integer n with |n| < 10^12 convert returns a result that is
\* non-empty and has no leading space, no trailing space and no two
\* consecutive spaces; for every integer with |n| >= 10^12 it raises an index
\* error instead, which get_all_values does not recover from: a generation
\* ends with the error dialog and nothing written, and the error leaves
\* preview_termsheet uncaught, no box shown.
C26_TotalInRangeOnly ==
  Converted =>
    /\ InRange =>
         /\ ~IsError(result)
         /\ Len(result) > 0
         /\ SubSeq(result, 1, 1) # " "
         /\ SubSeq(result, Len(result), Len(result)) # " "
         /\ ~Contains(result, "  ")
    /\ ~InRange =>
         /\ result = IndexError
         /\ get_all_values(C26_Form, options, clauses).raised = IndexError
         /\ \A env \in Environments :
              env.load_ok =>
                LET out == generate_termsheet(default_template, C26_Form, options,
                                              clauses, env)
                IN  /\ out.dialogs = <<GenerationError("list index out of range")>>
                    /\ out.saved = <<>>
         /\ LET seen == preview_termsheet(default_template, C26_Form, options, clauses)
            IN  seen.raised = IndexError /\ seen.dialogs = <<>>

\* convert was called on -(10^12) and raised
C26_Witness ==
  /\ Converted
  /\ number = Big(TRUE, 1000, 0)
  /\ C26_Typed = "-1000000000000"
  /\ result = IndexError

(***************************************************************************)
(* Claims about the list of CII entries, checked under SpecCiiList         *)
(***************************************************************************)

\* C27: in the CII variant, after construction and any add_cii and remove_cii,
\* the list holds at least one entry, remove_cii on a one-entry list changes
\* nothing, the remove button is enabled exactly when the list holds more
\* than one entry, and the entry at position i (from 0) is titled
\* "CII #(i+1)".
C27_ListKeptInOrder ==
  /\ Len(cii_widgets) >= 1
  /\ Len(cii_widgets) = 1 =>
       remove_cii(cii_widgets, buttons.remove_cii_button)
         = [cii_widgets |-> cii_widgets, remove_cii_button |-> buttons.remove_cii_button]
  /\ buttons.remove_cii_button <=> Len(cii_widgets) > 1
  /\ \A i \in 0..(Len(cii_widgets) - 1) :
       cii_widgets[i + 1].title = "CII #" \o NatToStr(i + 1)

\* a second entry was added after the first: the remove button is enabled
\* and the entries are numbered in order
C27_Witness ==
  /\ Len(cii_widgets) = 2
  /\ buttons.remove_cii_button
  /\ cii_widgets[1].beneficiaires = "M. Dupont"
  /\ cii_widgets[2].title = "CII #2"

\* the ten tokens bound to a field of an optional clause: the token, the
\* number of the clause and the name of the field
C28_FieldTokens ==
  << <<"[nombre_t3]", 2, "nombre_t3">>, <<"[nombre_t4]", 2, "nombre_t4">>,
     <<"[nombre_t5]", 2, "nombre_t5">>,
     <<"[nom_bailleur_agrement]", 4, "nom_bailleur_agrement">>,
     <<"[le bailleur]", 4, "nom_bailleur_agrement">>,
     <<"[type_bloc]", 4, "type_bloc">>,
     <<"[nom du bailleur]", 6, "nom_bailleur_reservation">>,
     <<"[nom_bailleur_reservation]", 6, "nom_bailleur_reservation">>,
     <<"[type_bloc_reservation]", 6, "type_bloc_reservation">>,
     <<"[niveau_commercialisation_libre]", 7, "niveau_commercialisation_libre">> >>

\* what token e stands for: the text of its field while its clause is
\* enabled, nothing otherwise
C28_Resolved(e) ==
  IF clauses[e[2]].enabled THEN Strip(clauses[e[2]].widgets[e[3]]) ELSE ""

\* the ten tokens, or what they stand for, each followed by ";"
C28_Line(resolved) ==
  ConcatRange([i \in 1..Len(C28_FieldTokens) |->
                 (IF resolved THEN C28_Resolved(C28_FieldTokens[i])
                  ELSE C28_FieldTokens[i][1]) \o ";"],
              1, Len(C28_FieldTokens))

\* C28: the field values of an optional clause enter the value map only while
\* the clause is enabled: when it is disabled its fields are absent from the
\* map and each of the ten tokens bound to one of them resolves to the empty
\* string, in the replacement table and in the document, even if the hidden
\* field still holds a text.
C28_ClauseFieldsOnlyWhileEnabled ==
  Replaced =>
    /\ \A n \in 1..Len(C28_FieldTokens) :
         LET e == C28_FieldTokens[n]
             table == Replacements(last_values, clauses)
         IN  /\ clauses[e[2]].enabled <=> e[3] \in DOMAIN last_values
             /\ \A i \in 1..Len(table) :
                  table[i][1] = e[1] => table[i][2] = C28_Resolved(e)
    /\ Before = C28_Line(FALSE) => After = C28_Line(TRUE)

\* every clause field was filled in and only clauses 2 and 4 are enabled: the
\* tokens of clauses 6 and 7 leave nothing in the document
C28_Witness ==
  /\ Replaced
  /\ clauses[6].widgets["nom_bailleur_reservation"] = "In'li" /\ ~clauses[6].enabled
  /\ clauses[7].widgets["niveau_commercialisation_libre"] = "40" /\ ~clauses[7].enabled
  /\ Before = C28_Line(FALSE)
  /\ After = "3;2;1;CDC Habitat;CDC Habitat;social;;;;;"

(***************************************************************************)
(* Further claims about generate_cii_section, checked under SpecCII        *)
(***************************************************************************)

\* the amount of entry i, trimmed, is no integer once spaces, commas and dots
\* are removed
C29_Unparsable(i) ==
  PyIntRaises(Replace(Replace(Replace(Strip(cii_widgets[i].montant), " ", ""),
                              ",", ""), ".", ""))

\* the block of entry i with its amount text as typed and no word form
C29_RawBlock(i) ==
  "Caution d'indemnité d'immobilisation (CII) :\n\n"
    \o "a. Caution d'indemnité d'immobilisation (CII), émise en faveur de "
    \o Strip(cii_widgets[i].beneficiaires)
    \o (IF Strip(cii_widgets[i].venant_au_droit) # ""
        THEN ", venant au droit de " \o Strip(cii_widgets[i].venant_au_droit) ELSE "")
    \o ".\n\n"
    \o "b. Montant : " \o Strip(cii_widgets[i].montant) \o " €.\n\n"
    \o "c. Date d'échéance : " \o Strip(cii_widgets[i].date_echeance) \o ".\n\n"

\* C29: an entry whose three required fields are non-empty but whose amount
\* is no integer is kept, rendered with the amount text as typed in
\* "b. Montant : <text> €." and without the word form in parentheses; the
\* failure stays with that entry: no error is raised and every kept entry
\* stands in the section as the block it gives when it is alone in the list.
C29_UnparsableAmountKept ==
  op = "generate_cii_section" =>
    /\ ~IsError(result)
    /\ \A i \in 1..Len(cii_widgets) :
         C18_Kept(i) =>
           /\ Contains(result, generate_cii_section(<<cii_widgets[i]>>))
           /\ C29_Unparsable(i) =>
                /\ generate_cii_section(<<cii_widgets[i]>>) = C29_RawBlock(i)
                /\ Contains(result, C29_RawBlock(i))
    /\ result = C18_Blocks(Len(cii_widgets), "\n")

\* an entry with the amount "abc" before an entry with the amount 150000
C29_Witness ==
  /\ op = "generate_cii_section"
  /\ Len(cii_widgets) = 2
  /\ cii_widgets[1].montant = "abc" /\ C18_Kept(1)
  /\ cii_widgets[2].montant = "150000" /\ C18_Kept(2)
  /\ Contains(result, "b. Montant : abc €.\n\n")
  /\ Contains(result, "b. Montant : 150.000 € (cent cinquante mille euros).")

\* the integers on which convert is compared pairwise: the sampled inputs
\* inside the supported range and every number below one million whose
\* thousands are a sampled group, with both signs
C30_Range ==
  { n \in ConvertInputs : n.hi <= 999 /\ (n.neg => ~BigIsZero(n)) }
    \cup { Big(s, 0, t * 1000 + r) :
             s \in BOOLEAN, t \in GroupSamples \ {0}, r \in 0..999 }

\* integers near number: the opposite, the next and the previous one, and the
\* one with the billions and the units groups exchanged
C30_Rivals ==
  { m \in { Big(~number.neg, number.hi, number.lo),
            Big(number.neg, number.hi, (number.lo + 1) % 1000000000),
            Big(number.neg, number.hi, (number.lo + 999999999) % 1000000000),
            Big(number.neg, number.lo % 1000,
                (number.lo \div 1000) * 1000 + number.hi) } :
      m # number /\ (m.neg => ~BigIsZero(m)) }

\* C30: convert is injective on its supported range: two distinct integers m
\* and n with |m| < 10^12 and |n| < 10^12 have distinct word forms.  Checked
\* of number against the integers near it, and, once, of every pair of
\* integers of C30_Range (as many word forms as integers).
C30_ConvertInjective ==
  (Converted /\ InRange) =>
    /\ \A m \in C30_Rivals : convert(m) # result
    /\ BigIsZero(number) =>
         Cardinality({ convert(n) : n \in C30_Range }) = Cardinality(C30_Range)

\* convert(0) was computed, the state in which the word forms of C30_Range
\* are counted
C30_Witness ==
  /\ Converted
  /\ BigIsZero(number)
  /\ result = "zéro"
  /\ Cardinality(C30_Range) > 1000

====
